---- MODULE Spec2Model ----
(***************************************************************************)
(* A model of the rustchat server's realtime core:                         *)
(*   - the room registry (crates/rustchat-server/src/room/manager.rs,      *)
(*     room/mod.rs): rooms and the user_rooms reverse index, each behind   *)
(*     its own RwLock, so every mutation is two critical sections;         *)
(*   - the room broker (room/broadcast.rs): per-room broadcast channels    *)
(*     and the user_current_room index;                                    *)
(*   - the session fabric (main.rs): handle_socket and the tasks it        *)
(*     spawns, the live-clients map, the global broadcast channel, the     *)
(*     heartbeat;                                                          *)
(*   - the message store (crates/rustchat-core/src/database.rs) and the    *)
(*     handlers that save and publish a message;                           *)
(*   - the auth service (auth/service.rs, auth/api.rs, auth/middleware.rs):*)
(*     accounts, sessions of refresh tokens, JWTs, verification codes.     *)
(***************************************************************************)
EXTENDS Integers, Sequences, FiniteSets, TLC

\* ---------------------------------------------------------------- bounds
NUsers == 3
MaxRooms == 2
MaxCapacity == 2
NThreads == 2
MaxOps == 5
NSessions == 2
NTimed == 1
NChat == 1
MaxSaves == 3
MaxMsgIds == 2
MaxStamp == 1
MaxLimit == 2
MaxFrames == 4
MaxCloses == 1
MaxTime == 150
TimeStep == 15
NAccounts == 2
NCodes == 2
MaxAuthOps == 6

\* ------------------------------------------------------ program constants
HeartbeatInterval == 30
HeartbeatTimeout == 90
ChannelCapacity == 1000
\* all in seconds
AccessTokenDuration == 900
RefreshTokenDuration == 604800
CodeDuration == 600

Users == 1..NUsers
Sessions == 1..NSessions
RoomIds == 1..MaxRooms
Threads == 1..NThreads
\* Option<usize>: {} is None, {n} is Some(n)
MaxMembersChoices == {{}} \cup {{n} : n \in 0..MaxCapacity}

VARIABLES
    rooms,        \* RoomManager.rooms: RoomId -> Room (a function on the ids present)
    user_rooms,   \* RoomManager.user_rooms: UserId -> Vec<RoomId>
    next_room,    \* the next fresh RoomId (RoomId::new is a random uuid)
    call,         \* per registry caller: the operation in flight and where it is
    last_ret,     \* the Result the last completed registry operation returned
    ops,          \* registry operations started so far (bounds the run)
    \* ---- the session fabric (main.rs)
    hs_pc,        \* handle_socket of each session: where it is
    sess_uid,     \* the UserId handle_socket chose for the session
    task,         \* the five spawned tasks of each session: "none", "run" or "done"
    conn,         \* the transport of each session: "open" or "closed"
    responsive,   \* whether the session's client answers Ping with Pong
    clients,      \* AppState.clients: UserId -> ConnectedClient
    last_pong,    \* ConnectedClient.last_pong of each session (an Arc of its own)
    next_tick,    \* the heartbeat interval's next tick of each session
    now,          \* the clock, in seconds
    gchan,        \* AppState.tx: every event sent on the global broadcast channel
    gcur,         \* broadcast_rx of each session: how many events of gchan it has passed
    mailbox,      \* the mpsc queue (tx, rx) of each session
    wire,         \* what the session's ws_sender has written to the client
    ping_wire,    \* a Ping reached the client and is not yet answered
    timed_out,    \* the heartbeat task found the session timed out
    \* ---- the room broker (room/broadcast.rs) and the room listener (main.rs)
    room_chan,         \* RoomBroadcastManager.room_channels: RoomId -> events sent
    user_current_room, \* RoomBroadcastManager.user_current_room: UserId -> RoomId
    room_recv,         \* ConnectedClient.room_receiver of each session: <<>> is None
    held,              \* the receiver room_message_task took out of the slot
    owed,              \* history: the <<channel, index>> of each room event sent while
                       \* the session held a receiver of that channel
    got,               \* history: the <<channel, index>> of each room event that
                       \* room_message_task forwarded to the session's mailbox
    \* ---- the message store (rustchat-core database.rs)
    store,             \* the rows of table messages, in rowid order
    attempted,         \* history: the message id of every save_message call, in order
    \* ---- messages on their way from a handler to a channel
    botq,              \* AppState.message_tx: the bot replies not yet received
    publishing,        \* per session: the message handle_client_message has saved
                       \* and not yet published (<<>> is none)
    http_publishing,   \* the same for the HTTP handler send_room_message
    bot_publishing,    \* the same for the bot message listener
    \* ---- the auth service (auth/service.rs)
    utc,               \* Utc::now(), in seconds
    accounts,          \* table accounts: status and email_verified of each account
    session_rows,      \* table sessions, in insertion order
    codes,             \* table email_verifications: <<email, code>> -> row
    registering,       \* per caller: the register call between email_exists and its
                       \* INSERT (<<>> is none)
    verifying,         \* per caller: the verify_email_code call between its SELECT
                       \* and its UPDATE (<<>> is none)
    grants,            \* history: every token the service signed, with the status
                       \* of the account when it was signed
    revoked,           \* history: the refresh tokens whose sessions a completed
                       \* logout or logout_all_devices deactivated
    verified_ok,       \* history: how many verify_email_code calls returned Ok,
                       \* per <<email, code>>
    auth_ret,          \* the answer of the last auth operation
    \* ---- the log of the receive loops (main.rs)
    recv_log           \* per session: the last frame its handler refused or ignored

regVars == <<rooms, user_rooms, next_room, call, last_ret, ops>>

sessVars == <<hs_pc, sess_uid, task, conn, responsive, clients, last_pong, next_tick, now,
              gchan, gcur, mailbox, wire, ping_wire, timed_out>>

brokerVars == <<room_chan, user_current_room, room_recv, held, owed, got>>

msgVars == <<store, attempted, botq, publishing, http_publishing, bot_publishing>>

authVars == <<utc, accounts, session_rows, codes, registering, verifying, grants, revoked, verified_ok,
              auth_ret>>

logVars == <<recv_log>>

vars == <<regVars, sessVars, brokerVars, msgVars, authVars, logVars>>

\* ------------------------------------------------------- Room (room/mod.rs)
RoomNew(id, owner) ==
    [id |-> id, owner |-> owner, members |-> {owner}, max_members |-> {}]

set_max_members(room, max) == [room EXCEPT !.max_members = max]

is_member(room, u) == u \in room.members

is_owner(room, u) == room.owner = u

RoomIsFull(room) ==
    \E max \in room.max_members : Cardinality(room.members) >= max

\* Room::add_member: Err(RoomFull) leaves the room as it was
add_member(room, u) ==
    IF RoomIsFull(room)
    THEN [err |-> "RoomFull", room |-> room]
    ELSE [err |-> "ok", room |-> [room EXCEPT !.members = @ \cup {u}]]

remove_member(room, u) == [room EXCEPT !.members = @ \ {u}]

\* ------------------------------------------- helpers on the two hash maps
MapPut(m, k, v) == [x \in DOMAIN m \cup {k} |-> IF x = k THEN v ELSE m[x]]

MapDel(m, k) == [x \in DOMAIN m \ {k} |-> m[x]]

SeqSet(s) == {s[i] : i \in 1..Len(s)}

\* user_rooms.entry(u).or_insert_with(Vec::new).push(r)
UserRoomsPush(ur, u, r) ==
    MapPut(ur, u, IF u \in DOMAIN ur THEN Append(ur[u], r) ELSE <<r>>)

\* if let Some(rooms) = user_rooms.get_mut(u) { retain(id != r); remove u if empty }
UserRoomsRetain(ur, u, r) ==
    IF u \notin DOMAIN ur THEN ur
    ELSE LET kept == SelectSeq(ur[u], LAMBDA id : id # r)
         IN IF kept = <<>> THEN MapDel(ur, u) ELSE MapPut(ur, u, kept)

RECURSIVE UserRoomsRetainAll(_, _, _)
UserRoomsRetainAll(ur, members, r) ==
    IF members = {} THEN ur
    ELSE LET m == CHOOSE x \in members : TRUE
         IN UserRoomsRetainAll(UserRoomsRetain(ur, m, r), members \ {m}, r)

\* ---------------------------- the first critical section of each operation
\* (everything done under rooms.write()); the result says what comes next

\* a join_room that tries add_member before it looks for the user
JoinRoomLockedFullFirst(rms, r, u) ==
    IF r \notin DOMAIN rms THEN [err |-> "RoomNotFound", rooms |-> rms]
    ELSE IF RoomIsFull(rms[r]) THEN [err |-> "RoomFull", rooms |-> rms]
    ELSE IF is_member(rms[r], u) THEN [err |-> "UserAlreadyInRoom", rooms |-> rms]
    ELSE [err |-> "ok", rooms |-> [rms EXCEPT ![r] = add_member(rms[r], u).room]]

\* join_room, under rooms.write()
JoinRoomLocked(rms, r, u) ==
    IF r \notin DOMAIN rms THEN [err |-> "RoomNotFound", rooms |-> rms]
    ELSE IF is_member(rms[r], u) THEN [err |-> "UserAlreadyInRoom", rooms |-> rms]
    ELSE LET a == add_member(rms[r], u)
         IN [err |-> a.err, rooms |-> [rms EXCEPT ![r] = a.room]]

\* a leave_room that keeps a room whose last member left
LeaveRoomLockedKeepsEmpty(rms, r, u) ==
    IF r \notin DOMAIN rms THEN [err |-> "RoomNotFound", rooms |-> rms, index |-> FALSE]
    ELSE IF ~is_member(rms[r], u)
         THEN [err |-> "UserNotInRoom", rooms |-> rms, index |-> FALSE]
    ELSE [err |-> "ok", rooms |-> [rms EXCEPT ![r] = remove_member(rms[r], u)],
          index |-> TRUE]

\* leave_room: index is TRUE when the code goes on to update user_rooms
LeaveRoomLocked(rms, r, u) ==
    IF r \notin DOMAIN rms THEN [err |-> "RoomNotFound", rooms |-> rms, index |-> FALSE]
    ELSE IF ~is_member(rms[r], u)
         THEN [err |-> "UserNotInRoom", rooms |-> rms, index |-> FALSE]
    ELSE LET left == remove_member(rms[r], u)
         IN IF left.members = {}
            THEN [err |-> "ok", rooms |-> MapDel(rms, r), index |-> FALSE]
            ELSE [err |-> "ok", rooms |-> [rms EXCEPT ![r] = left], index |-> TRUE]

\* a delete_room that does not ask who the caller is
DeleteRoomLockedAnyUser(rms, r, u) ==
    IF r \notin DOMAIN rms THEN [err |-> "RoomNotFound", rooms |-> rms, members |-> {}]
    ELSE [err |-> "ok", rooms |-> MapDel(rms, r), members |-> rms[r].members]

DeleteRoomLocked(rms, r, u) ==
    IF r \notin DOMAIN rms THEN [err |-> "RoomNotFound", rooms |-> rms, members |-> {}]
    ELSE IF ~is_owner(rms[r], u)
         THEN [err |-> "PermissionDenied", rooms |-> rms, members |-> {}]
    ELSE [err |-> "ok", rooms |-> MapDel(rms, r), members |-> rms[r].members]

\* ------------------------------------------------------ registry callers
Idle == [pc |-> "idle", user |-> 0, room |-> 0, snap |-> {}, todo |-> <<>>]

InFlight(pc, u, r) == [Idle EXCEPT !.pc = pc, !.user = u, !.room = r]

\* a caller that is idle starts an operation
Start(t) ==
    /\ call[t].pc = "idle"
    /\ ops < MaxOps
    /\ ops' = ops + 1

\* create_room, first section: Room::new, set_max_members, rooms.insert
CreateRoomStore(t, u, max) ==
    /\ Start(t)
    /\ next_room <= MaxRooms
    /\ rooms' = MapPut(rooms, next_room, set_max_members(RoomNew(next_room, u), max))
    /\ next_room' = next_room + 1
    /\ call' = [call EXCEPT ![t] = InFlight("create_index", u, next_room)]
    /\ UNCHANGED <<user_rooms, last_ret>>
    /\ UNCHANGED <<sessVars, brokerVars>>
    /\ UNCHANGED msgVars
    /\ UNCHANGED authVars
    /\ UNCHANGED logVars

\* create_room, second section: user_rooms push
CreateRoomIndex(t) ==
    /\ call[t].pc = "create_index"
    /\ user_rooms' = UserRoomsPush(user_rooms, call[t].user, call[t].room)
    /\ call' = [call EXCEPT ![t] = Idle]
    /\ last_ret' = "ok"
    /\ UNCHANGED <<rooms, next_room, ops>>
    /\ UNCHANGED <<sessVars, brokerVars>>
    /\ UNCHANGED msgVars
    /\ UNCHANGED authVars
    /\ UNCHANGED logVars

JoinRoomStore(t, u, r) ==
    /\ Start(t)
    /\ LET j == JoinRoomLocked(rooms, r, u)
       IN /\ rooms' = j.rooms
          /\ IF j.err = "ok"
             THEN /\ call' = [call EXCEPT ![t] = InFlight("join_index", u, r)]
                  /\ UNCHANGED last_ret
             ELSE /\ last_ret' = j.err
                  /\ UNCHANGED call
    /\ UNCHANGED <<user_rooms, next_room>>
    /\ UNCHANGED <<sessVars, brokerVars>>
    /\ UNCHANGED msgVars
    /\ UNCHANGED authVars
    /\ UNCHANGED logVars

JoinRoomIndex(t) ==
    /\ call[t].pc = "join_index"
    /\ user_rooms' = UserRoomsPush(user_rooms, call[t].user, call[t].room)
    /\ call' = [call EXCEPT ![t] = Idle]
    /\ last_ret' = "ok"
    /\ UNCHANGED <<rooms, next_room, ops>>
    /\ UNCHANGED <<sessVars, brokerVars>>
    /\ UNCHANGED msgVars
    /\ UNCHANGED authVars
    /\ UNCHANGED logVars

LeaveRoomStore(t, u, r) ==
    /\ Start(t)
    /\ LET l == LeaveRoomLocked(rooms, r, u)
       IN /\ rooms' = l.rooms
          /\ IF l.index
             THEN /\ call' = [call EXCEPT ![t] = InFlight("leave_index", u, r)]
                  /\ UNCHANGED last_ret
             ELSE /\ last_ret' = l.err
                  /\ UNCHANGED call
    /\ UNCHANGED <<user_rooms, next_room>>
    /\ UNCHANGED <<sessVars, brokerVars>>
    /\ UNCHANGED msgVars
    /\ UNCHANGED authVars
    /\ UNCHANGED logVars

LeaveRoomIndex(t) ==
    /\ call[t].pc = "leave_index"
    /\ user_rooms' = UserRoomsRetain(user_rooms, call[t].user, call[t].room)
    /\ call' = [call EXCEPT ![t] = Idle]
    /\ last_ret' = "ok"
    /\ UNCHANGED <<rooms, next_room, ops>>
    /\ UNCHANGED <<sessVars, brokerVars>>
    /\ UNCHANGED msgVars
    /\ UNCHANGED authVars
    /\ UNCHANGED logVars

DeleteRoomStore(t, u, r) ==
    /\ Start(t)
    /\ LET d == DeleteRoomLocked(rooms, r, u)
       IN /\ rooms' = d.rooms
          /\ IF d.err = "ok"
             THEN /\ call' = [call EXCEPT ![t] =
                                [InFlight("delete_index", u, r) EXCEPT !.snap = d.members]]
                  /\ UNCHANGED last_ret
             ELSE /\ last_ret' = d.err
                  /\ UNCHANGED call
    /\ UNCHANGED <<user_rooms, next_room>>
    /\ UNCHANGED <<sessVars, brokerVars>>
    /\ UNCHANGED msgVars
    /\ UNCHANGED authVars
    /\ UNCHANGED logVars

DeleteRoomIndex(t) ==
    /\ call[t].pc = "delete_index"
    /\ user_rooms' = UserRoomsRetainAll(user_rooms, call[t].snap, call[t].room)
    /\ call' = [call EXCEPT ![t] = Idle]
    /\ last_ret' = "ok"
    /\ UNCHANGED <<rooms, next_room, ops>>
    /\ UNCHANGED <<sessVars, brokerVars>>
    /\ UNCHANGED msgVars
    /\ UNCHANGED authVars
    /\ UNCHANGED logVars

\* handle_user_disconnect: snapshot user_rooms[u] under the read lock ...
DisconnectSnapshot(t, u) ==
    /\ Start(t)
    /\ u \in DOMAIN user_rooms
    /\ call' = [call EXCEPT ![t] =
                    [InFlight("disc_loop", u, 0) EXCEPT !.todo = user_rooms[u]]]
    /\ UNCHANGED <<rooms, user_rooms, next_room, last_ret>>
    /\ UNCHANGED <<sessVars, brokerVars>>
    /\ UNCHANGED msgVars
    /\ UNCHANGED authVars
    /\ UNCHANGED logVars

\* the for loop of handle_user_disconnect, after one id of the snapshot is done
DiscNext(c) ==
    IF Tail(c.todo) = <<>> THEN Idle
    ELSE [InFlight("disc_loop", c.user, 0) EXCEPT !.todo = Tail(c.todo)]

\* ... then leave_room for each id of the snapshot, errors only logged
DisconnectLeaveStore(t) ==
    /\ call[t].pc = "disc_loop"
    /\ LET c == call[t]
           r == Head(c.todo)
           l == LeaveRoomLocked(rooms, r, c.user)
       IN /\ rooms' = l.rooms
          /\ IF l.index
             THEN /\ call' = [call EXCEPT ![t] = [c EXCEPT !.pc = "disc_index", !.room = r]]
                  /\ UNCHANGED last_ret
             ELSE /\ call' = [call EXCEPT ![t] = DiscNext(c)]
                  /\ last_ret' = l.err
    /\ UNCHANGED <<user_rooms, next_room, ops>>
    /\ UNCHANGED <<sessVars, brokerVars>>
    /\ UNCHANGED msgVars
    /\ UNCHANGED authVars
    /\ UNCHANGED logVars

DisconnectLeaveIndex(t) ==
    /\ call[t].pc = "disc_index"
    /\ user_rooms' = UserRoomsRetain(user_rooms, call[t].user, call[t].room)
    /\ call' = [call EXCEPT ![t] = DiscNext(call[t])]
    /\ last_ret' = "ok"
    /\ UNCHANGED <<rooms, next_room, ops>>
    /\ UNCHANGED <<sessVars, brokerVars>>
    /\ UNCHANGED msgVars
    /\ UNCHANGED authVars
    /\ UNCHANGED logVars

\* ------------------------------------------- the message store
\* MessageRecord: the columns the queries read
Row(id, user, ts) == [id |-> id, user |-> user, ts |-> ts]

DbInit ==
    /\ store = <<>>
    /\ attempted = <<>>
    /\ botq = <<>>
    /\ publishing = [s \in Sessions |-> <<>>]
    /\ http_publishing = <<>>
    /\ bot_publishing = <<>>

save_message_insert(st, row) == Append(st, row)

\* INSERT OR REPLACE INTO messages: a row with the same primary key is
\* deleted, the new row gets the next rowid
save_message(st, row) == Append(SelectSeq(st, LAMBDA x : x.id # row.id), row)

\* the position of the row ORDER BY timestamp DESC returns first: the
\* greatest timestamp, the index order (rowid) among equal timestamps
FirstByTimestampDesc(st) ==
    CHOOSE i \in 1..Len(st) :
        \A j \in 1..Len(st) : st[j].ts < st[i].ts \/ (st[j].ts = st[i].ts /\ i <= j)

RemoveAt(st, i) == SubSeq(st, 1, i - 1) \o SubSeq(st, i + 1, Len(st))

RECURSIVE OrderByTimestampDesc(_, _)
\* ORDER BY timestamp DESC LIMIT limit
OrderByTimestampDesc(st, limit) ==
    IF st = <<>> \/ limit = 0 THEN <<>>
    ELSE LET i == FirstByTimestampDesc(st)
         IN <<st[i]>> \o OrderByTimestampDesc(RemoveAt(st, i), limit - 1)

Reverse(q) == [i \in 1..Len(q) |-> q[Len(q) + 1 - i]]

\* MessageDatabase::get_recent_messages: newest limit rows, oldest first
get_recent_messages(st, limit) == Reverse(OrderByTimestampDesc(st, limit))

\* MessageDatabase::get_user_messages
get_user_messages(st, u, limit) ==
    Reverse(OrderByTimestampDesc(SelectSeq(st, LAMBDA x : x.user = u), limit))

\* MessageDatabase::get_message_count
get_message_count(st) == Len(st)

\* the messages a caller may append
MsgInputs == {Row(id, u, ts) : id \in 1..MaxMsgIds, u \in Users, ts \in 0..MaxStamp}

\* a caller appends a message
DbSave(m) ==
    /\ Len(attempted) < MaxSaves
    /\ store' = save_message(store, m)
    /\ attempted' = Append(attempted, m.id)
    /\ UNCHANGED <<regVars, sessVars, brokerVars, botq, publishing, http_publishing,
                   bot_publishing>>
    /\ UNCHANGED authVars
    /\ UNCHANGED logVars

StoreNext == \E m \in MsgInputs : DbSave(m)

\* ------------------------------------------------------------ sessions
TaskNames == {"send", "recv", "bcast", "room", "hb"}

\* Option<String>::None of a nickname
NoNick == "None"

\* MessageType with from_nick: the kind of the content, the two nicknames of
\* a NickChange, and the nickname the message is signed with
Content(kind, old_nick, new_nick, from_nick) ==
    [kind |-> kind, old_nick |-> old_nick, new_nick |-> new_nick, from_nick |-> from_nick]

\* WsEvent; a Message carries its id, sender, room_id field and the room_id of
\* its additional_data (0 where the code leaves them None); an event that is
\* no global Message carries no content
Ev(type, user, room, id, extra) ==
    [type |-> type, user |-> user, room |-> room, id |-> id, extra |-> extra,
     content |-> Content("None", NoNick, NoNick, NoNick)]

Connected(u) == Ev("Connected", u, 0, 0, 0)
UserJoined(u) == Ev("UserJoined", u, 0, 0, 0)
UserLeft(u) == Ev("UserLeft", u, 0, 0, 0)
Ping == Ev("Ping", 0, 0, 0, 0)

FabricInit ==
    /\ recv_log = [s \in Sessions |-> "none"]
    /\ hs_pc = [s \in Sessions |-> "new"]
    /\ sess_uid = [s \in Sessions |-> 0]
    /\ task = [s \in Sessions |-> [k \in TaskNames |-> "none"]]
    /\ conn = [s \in Sessions |-> "open"]
    /\ responsive = [s \in Sessions |-> FALSE]
    /\ clients = <<>>
    /\ last_pong = [s \in Sessions |-> 0]
    /\ next_tick = [s \in Sessions |-> 0]
    /\ now = 0
    /\ gchan = <<>>
    /\ gcur = [s \in Sessions |-> 0]
    /\ mailbox = [s \in Sessions |-> <<>>]
    /\ wire = [s \in Sessions |-> <<>>]
    /\ ping_wire = [s \in Sessions |-> FALSE]
    /\ timed_out = [s \in Sessions |-> FALSE]

BrokerInit ==
    /\ room_chan = <<>>
    /\ user_current_room = <<>>
    /\ room_recv = [s \in Sessions |-> <<>>]
    /\ held = [s \in Sessions |-> <<>>]
    /\ owed = [s \in Sessions |-> <<>>]
    /\ got = [s \in Sessions |-> <<>>]

\* the session whose ConnectedClient is stored under its own user id
Registered(s) == sess_uid[s] \in DOMAIN clients /\ clients[sess_uid[s]].sess = s

\* tx.receiver_count(): each broadcast_rx lives in its session's broadcast task
receiver_count == Cardinality({s \in Sessions : task[s].bcast = "run"})

\* AppState::broadcast: send only when there is a subscriber
Broadcast(log, event) == IF receiver_count > 0 THEN Append(log, event) ELSE log

\* the mpsc receiver rx is alive until message_send_task, which owns it, ends
MailboxOpen(s) == task[s].send # "done"

\* AppState::add_client
add_client(cl, u, s) == MapPut(cl, u, [sess |-> s, nickname |-> NoNick])

\* AppState::remove_client (the map part)
remove_client(cl, u) == MapDel(cl, u)

SetTask(s, k, v) == [task EXCEPT ![s][k] = v]

\* ------------------------------------------------------- handle_socket
subscribe_late(log) == Len(log) + 1

\* state.tx.subscribe(): the new receiver sees the events sent from now on
subscribe(log) == Len(log)

\* the user id: generate_user_id() or the authenticated account's id
AcceptIds(s) == {s}

\* accept: choose the id, create the mailbox, write Connected to the socket
Accept(s, resp) ==
    /\ hs_pc[s] = "new"
    /\ \A o \in Sessions : o < s => hs_pc[o] # "new"
    /\ now + HeartbeatTimeout + HeartbeatInterval <= MaxTime
    /\ \E u \in AcceptIds(s) :
          /\ sess_uid' = [sess_uid EXCEPT ![s] = u]
          /\ wire' = [wire EXCEPT ![s] = <<Connected(u)>>]
    /\ responsive' = [responsive EXCEPT ![s] = resp]
    /\ hs_pc' = [hs_pc EXCEPT ![s] = "opened"]
    /\ UNCHANGED <<task, conn, clients, last_pong, next_tick, now, gchan, gcur, mailbox,
                   ping_wire, timed_out, regVars, brokerVars>>
    /\ UNCHANGED msgVars
    /\ UNCHANGED authVars
    /\ UNCHANGED logVars

\* accept of an authenticated connection: user_id is auth.user_id, the account's
\* id, whatever other connection of the account is live
AcceptAuthenticated(s, u) ==
    /\ hs_pc[s] = "new"
    /\ \A o \in Sessions : o < s => hs_pc[o] # "new"
    /\ now + HeartbeatTimeout + HeartbeatInterval <= MaxTime
    /\ sess_uid' = [sess_uid EXCEPT ![s] = u]
    /\ wire' = [wire EXCEPT ![s] = <<Connected(u)>>]
    /\ responsive' = [responsive EXCEPT ![s] = FALSE]
    /\ hs_pc' = [hs_pc EXCEPT ![s] = "opened"]
    /\ UNCHANGED <<task, conn, clients, last_pong, next_tick, now, gchan, gcur, mailbox,
                   ping_wire, timed_out, regVars, brokerVars>>
    /\ UNCHANGED msgVars
    /\ UNCHANGED authVars
    /\ UNCHANGED logVars

\* ConnectedClient { last_pong: now, room_receiver: None }, state.tx.subscribe(),
\* spawn broadcast_message_task and room_message_task
HsSubscribe(s) ==
    /\ hs_pc[s] = "opened"
    /\ last_pong' = [last_pong EXCEPT ![s] = now]
    /\ gcur' = [gcur EXCEPT ![s] = subscribe(gchan)]
    /\ task' = [task EXCEPT ![s]["bcast"] = "run", ![s]["room"] = "run"]
    /\ hs_pc' = [hs_pc EXCEPT ![s] = "subscribed"]
    /\ UNCHANGED <<sess_uid, conn, responsive, clients, next_tick, now, gchan, mailbox,
                   wire, ping_wire, timed_out, regVars, brokerVars>>
    /\ UNCHANGED msgVars
    /\ UNCHANGED authVars
    /\ UNCHANGED logVars

\* state.add_client(client): insert, then broadcast UserJoined; then, with no
\* await in between, spawn message_send_task, heartbeat_task (its interval
\* ticks at once) and message_receive_loop and wait in select!
HsAddClient(s) ==
    /\ hs_pc[s] = "subscribed"
    /\ clients' = add_client(clients, sess_uid[s], s)
    /\ gchan' = Broadcast(gchan, UserJoined(sess_uid[s]))
    /\ task' = [task EXCEPT ![s]["send"] = "run", ![s]["hb"] = "run", ![s]["recv"] = "run"]
    /\ next_tick' = [next_tick EXCEPT ![s] = now]
    /\ hs_pc' = [hs_pc EXCEPT ![s] = "selecting"]
    /\ UNCHANGED <<sess_uid, conn, responsive, last_pong, now, gcur,
                   mailbox, wire, ping_wire, timed_out, regVars, brokerVars>>
    /\ UNCHANGED msgVars
    /\ UNCHANGED authVars
    /\ UNCHANGED logVars

SomeTaskDone(s) == \E k \in TaskNames : task[s][k] = "done"

\* select! returns when one task ends; the other JoinHandles are dropped, which
\* detaches the tasks; then state.remove_client(&user_id)
HsCleanup(s) ==
    /\ hs_pc[s] = "selecting"
    /\ SomeTaskDone(s)
    /\ clients' = remove_client(clients, sess_uid[s])
    /\ gchan' = Broadcast(gchan, UserLeft(sess_uid[s]))
    /\ hs_pc' = [hs_pc EXCEPT ![s] = "done"]
    /\ UNCHANGED <<sess_uid, task, conn, responsive, last_pong, next_tick, now, gcur,
                   mailbox, wire, ping_wire, timed_out, regVars, brokerVars>>
    /\ UNCHANGED msgVars
    /\ UNCHANGED authVars
    /\ UNCHANGED logVars

\* --------------------------------------------- broadcast_message_task
\* broadcast_rx.recv(): Err(Lagged) when the receiver fell behind the buffer
GlobalLagged(s) == Len(gchan) - gcur[s] > ChannelCapacity

BcastForward(s) ==
    /\ task[s].bcast = "run"
    /\ gcur[s] < Len(gchan)
    /\ IF GlobalLagged(s) \/ ~MailboxOpen(s)
       THEN /\ task' = SetTask(s, "bcast", "done")
            /\ UNCHANGED <<gcur, mailbox>>
       ELSE /\ mailbox' = [mailbox EXCEPT ![s] = Append(@, gchan[gcur[s] + 1])]
            /\ gcur' = [gcur EXCEPT ![s] = @ + 1]
            /\ UNCHANGED task
    /\ UNCHANGED <<hs_pc, sess_uid, conn, responsive, clients, last_pong, next_tick, now,
                   gchan, wire, ping_wire, timed_out, regVars, brokerVars>>
    /\ UNCHANGED msgVars
    /\ UNCHANGED authVars
    /\ UNCHANGED logVars

\* -------------------------------------------------- message_send_task
\* every UnboundedSender clone of the session's tx is gone
SendersDropped(s) ==
    /\ hs_pc[s] = "done"
    /\ task[s].bcast # "run"
    /\ task[s].room # "run"
    /\ ~Registered(s)

Writer(s) ==
    /\ task[s].send = "run"
    /\ IF mailbox[s] # <<>>
       THEN IF conn[s] = "open"
            THEN /\ wire' = [wire EXCEPT ![s] = Append(@, Head(mailbox[s]))]
                 /\ mailbox' = [mailbox EXCEPT ![s] = Tail(@)]
                 /\ ping_wire' = [ping_wire EXCEPT ![s] = @ \/ Head(mailbox[s]) = Ping]
                 /\ UNCHANGED task
            ELSE /\ task' = SetTask(s, "send", "done")
                 /\ mailbox' = [mailbox EXCEPT ![s] = <<>>]
                 /\ UNCHANGED <<wire, ping_wire>>
       ELSE /\ SendersDropped(s)
            /\ task' = SetTask(s, "send", "done")
            /\ UNCHANGED <<wire, mailbox, ping_wire>>
    /\ UNCHANGED <<hs_pc, sess_uid, conn, responsive, clients, last_pong, next_tick, now,
                   gchan, gcur, timed_out, regVars, brokerVars>>
    /\ UNCHANGED msgVars
    /\ UNCHANGED authVars
    /\ UNCHANGED logVars

\* ------------------------------------------------ the client's side
\* the client closes, or the transport breaks
ClientClose(s) ==
    /\ hs_pc[s] # "new"
    /\ conn[s] = "open"
    /\ Cardinality({o \in Sessions : conn[o] = "closed"}) < MaxCloses
    /\ conn' = [conn EXCEPT ![s] = "closed"]
    /\ UNCHANGED <<hs_pc, sess_uid, task, responsive, clients, last_pong, next_tick, now,
                   gchan, gcur, mailbox, wire, ping_wire, timed_out, regVars, brokerVars>>
    /\ UNCHANGED msgVars
    /\ UNCHANGED authVars
    /\ UNCHANGED logVars

\* ------------------------------------------------ message_receive_loop
\* Close frame, error or end of stream: break
RecvClose(s) ==
    /\ task[s].recv = "run"
    /\ conn[s] = "closed"
    /\ task' = SetTask(s, "recv", "done")
    /\ UNCHANGED <<hs_pc, sess_uid, conn, responsive, clients, last_pong, next_tick, now,
                   gchan, gcur, mailbox, wire, ping_wire, timed_out, regVars, brokerVars>>
    /\ UNCHANGED msgVars
    /\ UNCHANGED authVars
    /\ UNCHANGED logVars

PongTargetNone(s) == {}

\* the session whose last_pong a Pong of session s resets: clients.get(user_id)
PongTarget(s) ==
    IF sess_uid[s] \in DOMAIN clients THEN {clients[sess_uid[s]].sess} ELSE {}

\* ClientMessage::Pong
RecvPong(s) ==
    /\ task[s].recv = "run"
    /\ conn[s] = "open"
    /\ responsive[s]
    /\ ping_wire[s]
    /\ last_pong' = [c \in Sessions |-> IF c \in PongTarget(s) THEN now ELSE last_pong[c]]
    /\ ping_wire' = [ping_wire EXCEPT ![s] = FALSE]
    /\ UNCHANGED <<hs_pc, sess_uid, task, conn, responsive, clients, next_tick, now,
                   gchan, gcur, mailbox, wire, timed_out, regVars, brokerVars>>
    /\ UNCHANGED msgVars
    /\ UNCHANGED authVars
    /\ UNCHANGED logVars

\* ------------------------------------------------------ heartbeat_task
HeartbeatNeverExpires(elapsed) == FALSE

HeartbeatExpiredLate(elapsed) == elapsed > HeartbeatTimeout + HeartbeatInterval

\* elapsed > timeout_duration
HeartbeatExpired(elapsed) == elapsed > HeartbeatTimeout

HbTick(s) ==
    /\ task[s].hb = "run"
    /\ now >= next_tick[s]
    /\ LET u == sess_uid[s] IN
       IF u \notin DOMAIN clients
       THEN /\ task' = SetTask(s, "hb", "done")
            /\ UNCHANGED <<clients, gchan, mailbox, next_tick, timed_out>>
       ELSE LET c == clients[u].sess IN
            IF HeartbeatExpired(now - last_pong[c])
            THEN /\ clients' = remove_client(clients, u)
                 /\ gchan' = Broadcast(gchan, UserLeft(u))
                 /\ timed_out' = [timed_out EXCEPT ![s] = TRUE]
                 /\ task' = SetTask(s, "hb", "done")
                 /\ UNCHANGED <<mailbox, next_tick>>
            ELSE IF MailboxOpen(c)
                 THEN /\ mailbox' = [mailbox EXCEPT ![c] = Append(@, Ping)]
                      /\ next_tick' = [next_tick EXCEPT ![s] = @ + HeartbeatInterval]
                      /\ UNCHANGED <<clients, gchan, task, timed_out>>
                 ELSE /\ task' = SetTask(s, "hb", "done")
                      /\ UNCHANGED <<clients, gchan, mailbox, next_tick, timed_out>>
    /\ UNCHANGED <<hs_pc, sess_uid, conn, responsive, last_pong, now, gcur, wire,
                   ping_wire, regVars, brokerVars>>
    /\ UNCHANGED msgVars
    /\ UNCHANGED authVars
    /\ UNCHANGED logVars

\* --------------------------------------------------- room_message_task
\* try_recv on a taken receiver rx = [room, cur]
RoomLagged(rx) == Len(room_chan[rx.room]) - rx.cur > ChannelCapacity

\* one turn of the loop up to the put-back: look the client up, take the
\* receiver out of the slot, try_recv, forward
RoomPoll(s) ==
    /\ task[s].room = "run"
    /\ held[s] = <<>>
    /\ LET u == sess_uid[s] IN
       IF u \notin DOMAIN clients
       THEN /\ task' = SetTask(s, "room", "done")
            /\ UNCHANGED <<room_recv, held, mailbox, got>>
       ELSE LET c == clients[u].sess IN
            /\ room_recv[c] # <<>>
            /\ LET rx == room_recv[c][1]
                   log == room_chan[rx.room]
               IN /\ room_recv' = [room_recv EXCEPT ![c] = <<>>]
                  /\ IF RoomLagged(rx)
                     THEN /\ held' = [held EXCEPT ![s] =
                                        <<[rx EXCEPT !.cur = Len(log) - ChannelCapacity]>>]
                          /\ UNCHANGED <<mailbox, task, got>>
                     ELSE IF rx.cur < Len(log)
                     THEN IF MailboxOpen(s)
                          THEN /\ mailbox' = [mailbox EXCEPT ![s] = Append(@, log[rx.cur + 1])]
                               /\ got' = [got EXCEPT ![s] = Append(@, <<rx.room, rx.cur + 1>>)]
                               /\ held' = [held EXCEPT ![s] = <<[rx EXCEPT !.cur = @ + 1]>>]
                               /\ UNCHANGED task
                          ELSE /\ task' = SetTask(s, "room", "done")
                               /\ UNCHANGED <<mailbox, held, got>>
                     ELSE /\ held' = [held EXCEPT ![s] = <<rx>>]
                          /\ UNCHANGED <<mailbox, task, got>>
    /\ UNCHANGED <<hs_pc, sess_uid, conn, responsive, clients, last_pong, next_tick, now,
                   gchan, gcur, wire, ping_wire, timed_out, regVars, room_chan,
                   user_current_room, owed>>
    /\ UNCHANGED msgVars
    /\ UNCHANGED authVars
    /\ UNCHANGED logVars

\* the end of the turn: put the receiver back if the client is still in the map
RoomPutBack(s) ==
    /\ task[s].room = "run"
    /\ held[s] # <<>>
    /\ held' = [held EXCEPT ![s] = <<>>]
    /\ LET u == sess_uid[s] IN
       IF u \in DOMAIN clients
       THEN room_recv' = [room_recv EXCEPT ![clients[u].sess] = held[s]]
       ELSE UNCHANGED room_recv
    /\ UNCHANGED <<sessVars, regVars, room_chan, user_current_room, owed, got>>
    /\ UNCHANGED msgVars
    /\ UNCHANGED authVars
    /\ UNCHANGED logVars

\* ------------------------------------------------------------ the clock
RunningTicks == {next_tick[s] : s \in {x \in Sessions : task[x].hb = "run"}}

\* the next instant: a step ahead, but no later than the earliest heartbeat tick
NextInstant ==
    LET t == now + TimeStep
    IN IF \E x \in RunningTicks : x < t
       THEN CHOOSE x \in RunningTicks : \A y \in RunningTicks : x <= y
       ELSE t

\* a client that answers has its Pong handled before its next heartbeat tick
Unanswered(s) ==
    /\ responsive[s]
    /\ conn[s] = "open"
    /\ task[s].hb = "run"
    /\ ping_wire[s] \/ \E i \in 1..Len(mailbox[s]) : mailbox[s][i] = Ping

\* time passes; handle_socket's straight-line code, a pending select! wake-up
\* and a due tick take no time
TimeAdvance ==
    /\ now < MaxTime
    /\ \E s \in Sessions : task[s].hb = "run"
    /\ \A s \in Sessions : hs_pc[s] \notin {"opened", "subscribed"}
    /\ \A s \in Sessions : ~(hs_pc[s] = "selecting" /\ SomeTaskDone(s))
    /\ \A s \in Sessions : task[s].hb = "run" => next_tick[s] > now
    /\ \A s \in Sessions : Unanswered(s) => NextInstant < next_tick[s]
    /\ now' = NextInstant
    /\ UNCHANGED <<hs_pc, sess_uid, task, conn, responsive, clients, last_pong, next_tick,
                   gchan, gcur, mailbox, wire, ping_wire, timed_out, regVars, brokerVars>>
    /\ UNCHANGED msgVars
    /\ UNCHANGED authVars
    /\ UNCHANGED logVars

\* ---------------------------------------------------------- room chat
UserJoinedRoom(u, r) == Ev("UserJoinedRoom", u, r, 0, 0)
UserLeftRoom(u, r) == Ev("UserLeftRoom", u, r, 0, 0)

\* Message::new_text(user, content, None) with additional_data {"room_id": r}
RoomMessage(u, r, id) == Ev("Message", u, 0, id, r)

\* the broadcast receivers of session s that are alive: in its slot, or taken
\* out by its room_message_task
LiveReceivers(s) == SeqSet(room_recv[s] \o held[s])

Subscribed(s, c) == \E rx \in LiveReceivers(s) : rx.room = c

\* RoomBroadcastManager::create_room_channel
create_room_channel(chans, r) == IF r \in DOMAIN chans THEN chans ELSE MapPut(chans, r, <<>>)

\* a membership test that only looks the room up
is_user_in_room_any_user(rms, r, u) == r \in DOMAIN rms

\* RoomManager::is_user_in_room
is_user_in_room(rms, r, u) == r \in DOMAIN rms /\ is_member(rms[r], u)

\* a frame is read by message_receive_loop of a session with an open socket
Frame(s) ==
    /\ task[s].recv = "run"
    /\ conn[s] = "open"
    /\ publishing[s] = <<>>
    /\ ops < MaxFrames
    /\ ops' = ops + 1

\* POST /rooms: RoomManager::create_room by an authenticated user
HttpCreateRoom(u) ==
    /\ ops < MaxFrames
    /\ ops' = ops + 1
    /\ next_room <= MaxRooms
    /\ rooms' = MapPut(rooms, next_room, RoomNew(next_room, u))
    /\ user_rooms' = UserRoomsPush(user_rooms, u, next_room)
    /\ next_room' = next_room + 1
    /\ UNCHANGED <<call, last_ret, sessVars, brokerVars>>
    /\ UNCHANGED msgVars
    /\ UNCHANGED authVars
    /\ UNCHANGED logVars

\* DELETE /api/rooms/{r}: RoomManager::delete_room by an authenticated user;
\* the handler calls nothing else
HttpDeleteRoom(u, r) ==
    /\ ops < MaxFrames
    /\ ops' = ops + 1
    /\ LET d == DeleteRoomLocked(rooms, r, u)
       IN /\ rooms' = d.rooms
          /\ user_rooms' = IF d.err = "ok" THEN UserRoomsRetainAll(user_rooms, d.members, r)
                                           ELSE user_rooms
    /\ UNCHANGED <<next_room, call, last_ret, sessVars, brokerVars>>
    /\ UNCHANGED msgVars
    /\ UNCHANGED authVars
    /\ UNCHANGED logVars

\* ClientMessage::JoinRoom: join_room, then user_enter_room and the new
\* receiver stored in the client's slot, also when the user was a member already
RecvJoinRoom(s, r) ==
    /\ Frame(s)
    /\ LET u == sess_uid[s]
           j == JoinRoomLocked(rooms, r, u)
       IN /\ rooms' = j.rooms
          /\ user_rooms' = IF j.err = "ok" THEN UserRoomsPush(user_rooms, u, r) ELSE user_rooms
          /\ IF j.err \in {"ok", "UserAlreadyInRoom"}
             THEN /\ room_chan' = create_room_channel(room_chan, r)
                  /\ user_current_room' = MapPut(user_current_room, u, r)
                  /\ room_recv' =
                        IF u \in DOMAIN clients
                        THEN [room_recv EXCEPT ![clients[u].sess] =
                                 <<[room |-> r, cur |-> subscribe(room_chan'[r])]>>]
                        ELSE room_recv
                  /\ gchan' = IF j.err = "ok" THEN Broadcast(gchan, UserJoinedRoom(u, r))
                                              ELSE gchan
             ELSE UNCHANGED <<room_chan, user_current_room, room_recv, gchan>>
          /\ recv_log' = IF j.err \in {"ok", "UserAlreadyInRoom"}
                         THEN recv_log
                         ELSE [recv_log EXCEPT ![s] = "Err JoinRoom"]
    /\ UNCHANGED <<next_room, call, last_ret, hs_pc, sess_uid, task, conn, responsive,
                   clients, last_pong, next_tick, now, gcur, mailbox, wire, ping_wire,
                   timed_out, held, owed, got>>
    /\ UNCHANGED msgVars
    /\ UNCHANGED authVars

\* ClientMessage::LeaveRoom: leave_room, then user_leave_current_room and the
\* client's slot cleared
RecvLeaveRoom(s, r) ==
    /\ Frame(s)
    /\ LET u == sess_uid[s]
           l == LeaveRoomLocked(rooms, r, u)
       IN /\ rooms' = l.rooms
          /\ user_rooms' = IF l.index THEN UserRoomsRetain(user_rooms, u, r) ELSE user_rooms
          /\ IF l.err = "ok"
             THEN /\ user_current_room' = MapDel(user_current_room, u)
                  /\ room_recv' =
                        IF u \in DOMAIN clients
                        THEN [room_recv EXCEPT ![clients[u].sess] = <<>>]
                        ELSE room_recv
                  /\ gchan' = Broadcast(gchan, UserLeftRoom(u, r))
             ELSE UNCHANGED <<user_current_room, room_recv, gchan>>
          /\ recv_log' = IF l.err = "ok" THEN recv_log
                                         ELSE [recv_log EXCEPT ![s] = "Err LeaveRoom"]
    /\ UNCHANGED <<next_room, call, last_ret, hs_pc, sess_uid, task, conn, responsive,
                   clients, last_pong, next_tick, now, gcur, mailbox, wire, ping_wire,
                   timed_out, room_chan, held, owed, got>>
    /\ UNCHANGED msgVars
    /\ UNCHANGED authVars

\* RoomMessageRouter::route_message: the channel is that of the sender's
\* current room; sender.send fails when the channel has no receiver
route_message(chans, cur, u) ==
    IF u \in DOMAIN cur /\ cur[u] \in DOMAIN chans
          /\ \E s \in Sessions : Subscribed(s, cur[u])
    THEN {cur[u]}
    ELSE {}

\* the room channels after route_message(event, u)
PublishRoom(chans, to, event) ==
    [c \in DOMAIN chans |-> IF c \in to THEN Append(chans[c], event) ELSE chans[c]]

\* the histories of owed events after an event was sent on the channels to
OwedAfter(to) ==
    [x \in Sessions |->
        IF \E c \in to : Subscribed(x, c)
        THEN owed[x] \o <<(LET c == CHOOSE c \in to : TRUE IN <<c, Len(room_chan[c]) + 1>>)>>
        ELSE owed[x]]

\* a handler that publishes without calling the store
SaveAttemptSkipped(event, ok) == UNCHANGED <<store, attempted>>

\* state.message_db.save_message(&message): the call is made; ok says
\* whether the INSERT went through
SaveAttempt(event, ok) ==
    /\ attempted' = Append(attempted, event.id)
    /\ store' = IF ok THEN save_message(store, Row(event.id, event.user, now)) ELSE store

\* ClientMessage::SendRoomMessage{r}, up to the save: is_user_in_room(r),
\* build the message, save it
RecvSendRoomMessage(s, r, ok) ==
    /\ Frame(s)
    /\ LET u == sess_uid[s]
       IN IF is_user_in_room(rooms, r, u)
          THEN /\ SaveAttempt(RoomMessage(u, r, ops'), ok)
               /\ publishing' = [publishing EXCEPT ![s] =
                                   <<[event |-> RoomMessage(u, r, ops'), bot |-> FALSE]>>]
               /\ UNCHANGED recv_log
          ELSE /\ recv_log' = [recv_log EXCEPT ![s] = "Err SendRoomMessage"]
               /\ UNCHANGED <<store, attempted, publishing>>
    /\ UNCHANGED <<rooms, user_rooms, next_room, call, last_ret, sessVars, brokerVars,
                   botq, http_publishing, bot_publishing>>
    /\ UNCHANGED authVars

\* Message::new_text: a global text message signed with from_nick
TextMessage(u, id, from_nick) ==
    [Ev("Message", u, 0, id, 0) EXCEPT !.content = Content("Text", NoNick, NoNick, from_nick)]

\* Message::new_nick_change as SetNickname calls it: signed with the new nickname
NickChangeMessage(u, id, old_nick, new_nick) ==
    [Ev("Message", u, 0, id, 0) EXCEPT
        !.content = Content("NickChange", old_nick, new_nick, new_nick)]

\* the nicknames a SetNickname frame may carry; "" fails the validation
Nicknames == {"", "alice", "bob"}

\* the nickname field of a SendMessage frame: absent, or any name the client
\* chooses
FrameNicks == {NoNick, "alice"}

\* ClientMessage::SendMessage, up to the save: the message is signed with the
\* nickname of the frame; trigger says whether the text holds a trigger of the
\* echo bot
RecvSendMessage(s, nick, trigger, ok) ==
    /\ Frame(s)
    /\ SaveAttempt(TextMessage(sess_uid[s], ops', nick), ok)
    /\ publishing' = [publishing EXCEPT ![s] =
                        <<[event |-> TextMessage(sess_uid[s], ops', nick), bot |-> trigger]>>]
    /\ UNCHANGED <<rooms, user_rooms, next_room, call, last_ret, sessVars, brokerVars,
                   botq, http_publishing, bot_publishing>>
    /\ UNCHANGED authVars
    /\ UNCHANGED logVars

\* the old_nick of a NickChange whose session had no nickname (the code's
\* string is the Chinese for "anonymous user")
DefaultNick == "anonymous"

\* a handler that does not compare the nickname with the stored one
SetNicknameAlways(cls, u, nick) == TRUE

\* SetNickname under the clients lock: whether the nickname differs from the
\* one the client entry holds
SetNicknameChanges(cls, u, nick) == cls[u].nickname # nick

\* ClientMessage::SetNickname, up to the save: validate, store the nickname in
\* the client entry, build the NickChange message, save it
RecvSetNickname(s, nick, ok) ==
    /\ Frame(s)
    /\ LET u == sess_uid[s]
           old_nick == IF clients[u].nickname = NoNick THEN DefaultNick
                                                      ELSE clients[u].nickname
       IN IF nick = "" \/ u \notin DOMAIN clients
          THEN /\ recv_log' = [recv_log EXCEPT ![s] = "Err SetNickname"]
               /\ UNCHANGED <<clients, store, attempted, publishing>>
          ELSE IF SetNicknameChanges(clients, u, nick)
               THEN /\ clients' = [clients EXCEPT ![u].nickname = nick]
                    /\ SaveAttempt(NickChangeMessage(u, ops', old_nick, nick), ok)
                    /\ publishing' = [publishing EXCEPT ![s] =
                          <<[event |-> NickChangeMessage(u, ops', old_nick, nick),
                             bot |-> FALSE]>>]
                    /\ UNCHANGED recv_log
               ELSE /\ recv_log' = [recv_log EXCEPT ![s] = "nickname unchanged"]
                    /\ UNCHANGED <<clients, store, attempted, publishing>>
    /\ UNCHANGED <<rooms, user_rooms, next_room, call, last_ret, hs_pc, sess_uid, task,
                   conn, responsive, last_pong, next_tick, now, gchan, gcur, mailbox, wire,
                   ping_wire, timed_out, brokerVars, botq, http_publishing, bot_publishing>>
    /\ UNCHANGED authVars

\* BotManager::send_bot_message: a new message from a new user id
BotMessage(id) == Ev("Message", 0, 0, id + MaxFrames, 0)

\* the rest of the handler after save_message: a room message goes through
\* route_message, any other through state.broadcast and, for SendMessage,
\* bot_manager.handle_message
RecvPublish(s) ==
    /\ task[s].recv = "run"
    /\ publishing[s] # <<>>
    /\ publishing' = [publishing EXCEPT ![s] = <<>>]
    /\ LET event == publishing[s][1].event
           to == route_message(room_chan, user_current_room, event.user)
       IN IF event.extra # 0
          THEN /\ room_chan' = PublishRoom(room_chan, to, event)
               /\ owed' = OwedAfter(to)
               /\ UNCHANGED <<gchan, botq>>
          ELSE /\ gchan' = Broadcast(gchan, event)
               /\ botq' = IF publishing[s][1].bot THEN Append(botq, BotMessage(event.id))
                                                   ELSE botq
               /\ UNCHANGED <<room_chan, owed>>
    /\ UNCHANGED <<regVars, hs_pc, sess_uid, task, conn, responsive, clients, last_pong,
                   next_tick, now, gcur, mailbox, wire, ping_wire, timed_out,
                   user_current_room, room_recv, held, got, store, attempted,
                   http_publishing, bot_publishing>>
    /\ UNCHANGED authVars
    /\ UNCHANGED logVars

\* POST /api/rooms/{r}/messages, up to the save: is_user_in_room(r), build the
\* message, save it; a failed save ends the request
HttpSendRoomMessage(u, r, ok) ==
    /\ http_publishing = <<>>
    /\ ops < MaxFrames
    /\ ops' = ops + 1
    /\ IF is_user_in_room(rooms, r, u)
       THEN /\ SaveAttempt(RoomMessage(u, r, ops'), ok)
            /\ http_publishing' = IF ok THEN <<RoomMessage(u, r, ops')>> ELSE <<>>
       ELSE UNCHANGED <<store, attempted, http_publishing>>
    /\ UNCHANGED <<rooms, user_rooms, next_room, call, last_ret, sessVars, brokerVars,
                   botq, publishing, bot_publishing>>
    /\ UNCHANGED authVars
    /\ UNCHANGED logVars

\* send_room_message after the save: route_message(room_message, user_id)
HttpPublish ==
    /\ http_publishing # <<>>
    /\ http_publishing' = <<>>
    /\ LET event == http_publishing[1]
           to == route_message(room_chan, user_current_room, event.user)
       IN /\ room_chan' = PublishRoom(room_chan, to, event)
          /\ owed' = OwedAfter(to)
    /\ UNCHANGED <<regVars, sessVars, user_current_room, room_recv, held, got, store,
                   attempted, botq, publishing, bot_publishing>>
    /\ UNCHANGED authVars
    /\ UNCHANGED logVars

\* start_bot_message_listener: message_rx.recv(), save_message
BotListen(ok) ==
    /\ bot_publishing = <<>>
    /\ botq # <<>>
    /\ botq' = Tail(botq)
    /\ SaveAttempt(Head(botq), ok)
    /\ bot_publishing' = <<Head(botq)>>
    /\ UNCHANGED <<regVars, sessVars, brokerVars, publishing, http_publishing>>
    /\ UNCHANGED authVars
    /\ UNCHANGED logVars

\* start_bot_message_listener: state.broadcast(WsEvent::Message(bot_message))
BotPublish ==
    /\ bot_publishing # <<>>
    /\ bot_publishing' = <<>>
    /\ gchan' = Broadcast(gchan, bot_publishing[1])
    /\ UNCHANGED <<regVars, hs_pc, sess_uid, task, conn, responsive, clients, last_pong,
                   next_tick, now, gcur, mailbox, wire, ping_wire, timed_out, brokerVars,
                   store, attempted, botq, publishing, http_publishing>>
    /\ UNCHANGED authVars
    /\ UNCHANGED logVars

ChatSessions == 1..NChat

ChatNext ==
    \/ \E s \in ChatSessions : Accept(s, FALSE)
    \/ \E s \in ChatSessions : HsSubscribe(s)
    \/ \E s \in ChatSessions : HsAddClient(s)
    \/ \E s \in ChatSessions : HsCleanup(s)
    \/ \E s \in ChatSessions : BcastForward(s)
    \/ \E s \in ChatSessions : Writer(s)
    \/ \E s \in ChatSessions : HbTick(s)
    \/ \E s \in ChatSessions : RoomPoll(s)
    \/ \E s \in ChatSessions : RoomPutBack(s)
    \/ \E u \in Users : HttpCreateRoom(u)
    \/ \E s \in ChatSessions, r \in RoomIds : RecvJoinRoom(s, r)
    \/ \E s \in ChatSessions, r \in RoomIds : RecvLeaveRoom(s, r)
    \/ \E s \in ChatSessions, r \in RoomIds : RecvSendRoomMessage(s, r, TRUE)
    \/ \E s \in ChatSessions : RecvPublish(s)

\* the chat frames together with the HTTP deletion of rooms
BrokerNext ==
    \/ \E s \in ChatSessions : Accept(s, FALSE)
    \/ \E s \in ChatSessions : HsSubscribe(s)
    \/ \E s \in ChatSessions : HsAddClient(s)
    \/ \E s \in ChatSessions : HsCleanup(s)
    \/ \E s \in ChatSessions : BcastForward(s)
    \/ \E s \in ChatSessions : Writer(s)
    \/ \E s \in ChatSessions : HbTick(s)
    \/ \E s \in ChatSessions : RoomPoll(s)
    \/ \E s \in ChatSessions : RoomPutBack(s)
    \/ \E u \in Users : HttpCreateRoom(u)
    \/ \E s \in ChatSessions, r \in RoomIds : RecvJoinRoom(s, r)
    \/ \E s \in ChatSessions, r \in RoomIds : RecvLeaveRoom(s, r)
    \/ \E s \in ChatSessions, r \in RoomIds : RecvSendRoomMessage(s, r, TRUE)
    \/ \E s \in ChatSessions : RecvPublish(s)
    \/ \E u \in Users, r \in RoomIds : HttpDeleteRoom(u, r)

\* the accounts that own a chat session
ChatUsers == UNION {AcceptIds(s) : s \in ChatSessions}

\* every path that publishes a message, with a store that may fail; the session
\* is followed up to the channels, not into its mailbox
PublishNext ==
    \/ \E s \in ChatSessions : Accept(s, FALSE)
    \/ \E s \in ChatSessions : HsSubscribe(s)
    \/ \E s \in ChatSessions : HsAddClient(s)
    \/ \E u \in ChatUsers : HttpCreateRoom(u)
    \/ \E s \in ChatSessions, r \in RoomIds : RecvJoinRoom(s, r)
    \/ \E s \in ChatSessions, r \in RoomIds, ok \in BOOLEAN : RecvSendRoomMessage(s, r, ok)
    \/ \E s \in ChatSessions, trigger \in BOOLEAN, ok \in BOOLEAN :
          RecvSendMessage(s, NoNick, trigger, ok)
    \/ \E s \in ChatSessions, nick \in {"", "alice"}, ok \in BOOLEAN :
          RecvSetNickname(s, nick, ok)
    \/ \E s \in ChatSessions : RecvPublish(s)
    \/ \E u \in ChatUsers, r \in RoomIds, ok \in BOOLEAN : HttpSendRoomMessage(u, r, ok)
    \/ HttpPublish
    \/ \E ok \in BOOLEAN : BotListen(ok)
    \/ BotPublish

\* SendMessage frames that trigger the bot, a sender that disconnects, and a
\* second connection that subscribes
BotsNext ==
    \/ \E s \in Sessions : Accept(s, FALSE)
    \/ \E s \in Sessions : HsSubscribe(s)
    \/ \E s \in ChatSessions : HsAddClient(s)
    \/ \E s \in ChatSessions : BcastForward(s)
    \/ \E s \in ChatSessions : Writer(s)
    \/ \E s \in ChatSessions : ClientClose(s)
    \/ \E s \in ChatSessions : RecvSendMessage(s, NoNick, TRUE, TRUE)
    \/ \E s \in ChatSessions : RecvPublish(s)
    \/ BotListen(TRUE)
    \/ BotPublish

\* sessions that stay connected, the first of which sends SetNickname and
\* SendMessage frames, followed from the handler to every session's mailbox
NickNext ==
    \/ \E s \in Sessions : Accept(s, FALSE)
    \/ \E s \in Sessions : HsSubscribe(s)
    \/ \E s \in Sessions : HsAddClient(s)
    \/ \E s \in Sessions : BcastForward(s)
    \/ \E s \in ChatSessions, nick \in Nicknames, ok \in BOOLEAN : RecvSetNickname(s, nick, ok)
    \/ \E s \in ChatSessions, nick \in FrameNicks : RecvSendMessage(s, nick, FALSE, TRUE)
    \/ \E s \in ChatSessions : RecvPublish(s)

\* sessions whose clients stay silent, without the clock
SessNext ==
    \/ \E s \in Sessions : Accept(s, FALSE)
    \/ \E s \in Sessions : HsSubscribe(s)
    \/ \E s \in Sessions : HsAddClient(s)
    \/ \E s \in Sessions : HsCleanup(s)
    \/ \E s \in Sessions : BcastForward(s)
    \/ \E s \in Sessions : Writer(s)
    \/ \E s \in Sessions : ClientClose(s)
    \/ \E s \in Sessions : RecvClose(s)
    \/ \E s \in Sessions : HbTick(s)
    \/ \E s \in Sessions : RoomPoll(s)

\* the sessions followed under the clock
TimedSessions == 1..NTimed

HbNext ==
    \/ \E s \in TimedSessions, resp \in BOOLEAN : Accept(s, resp)
    \/ \E s \in TimedSessions : HsSubscribe(s)
    \/ \E s \in TimedSessions : HsAddClient(s)
    \/ \E s \in TimedSessions : HsCleanup(s)
    \/ \E s \in TimedSessions : BcastForward(s)
    \/ \E s \in TimedSessions : Writer(s)
    \/ \E s \in TimedSessions : ClientClose(s)
    \/ \E s \in TimedSessions : RecvClose(s)
    \/ \E s \in TimedSessions : RecvPong(s)
    \/ \E s \in TimedSessions : HbTick(s)
    \/ \E s \in TimedSessions : RoomPoll(s)
    \/ TimeAdvance

\* ------------------------------------------------------- the auth service
Accounts == 1..NAccounts

\* the connections of one account: every session authenticates
SharedNext ==
    \/ \E s \in Sessions, u \in Accounts : AcceptAuthenticated(s, u)
    \/ \E s \in Sessions : HsSubscribe(s)
    \/ \E s \in Sessions : HsAddClient(s)
    \/ \E s \in Sessions : HsCleanup(s)
    \/ \E s \in Sessions : ClientClose(s)
    \/ \E s \in Sessions : RecvClose(s)
    \/ \E s \in Sessions : HbTick(s)
    \/ \E s \in Sessions : RoomPoll(s)
Codes == 1..NCodes

\* AccountStatus
Statuses == {"active", "suspended", "deleted"}

\* the steps of the clock: one second and each of the three durations
UtcSteps == {1, CodeDuration, AccessTokenDuration, RefreshTokenDuration}

\* a JWT: the JwtClaims sub, token_type, iat, exp, and the key that signed it
Token(sub, token_type, iat, exp, sig) ==
    [sub |-> sub, token_type |-> token_type, iat |-> iat, exp |-> exp, sig |-> sig]

NoToken == Token(0, "none", 0, 0, "none")

\* a token that was not signed with jwt_secret
ForgedToken == Token(1, "refresh", 0, RefreshTokenDuration, "other")

\* AuthService::generate_token: the claims depend on the account, the type
\* and the second of issue only
generate_token(a, token_type, issued_at) ==
    Token(a, token_type, issued_at,
          issued_at + (IF token_type = "access" THEN AccessTokenDuration
                                                ELSE RefreshTokenDuration),
          "server")

\* jsonwebtoken::decode with the service's key: the signature must be the
\* service's (its own exp validation rejects no token that the check of
\* verify_token below accepts)
decode(tok) == tok.sig = "server"

\* AuthService::verify_token at time t: "ok" or the error
verify_token(tok, expected_type, t) ==
    IF ~decode(tok) THEN "JWT decoding error"
    ELSE IF tok.token_type # expected_type THEN "Invalid token type"
    ELSE IF tok.exp < t THEN "Token expired"
    ELSE "ok"

\* the failures of verify_token, by the message they carry
TokenFailures == {"JWT decoding error", "Invalid token type", "Token expired"}

\* the AuthError variant a failure is returned as: verify_token and
\* refresh_access_token wrap each of their own failures in DatabaseError
AuthErrorOf(err) ==
    IF err \in TokenFailures \cup {"Invalid refresh token", "Refresh token expired"}
    THEN "DatabaseError"
    ELSE err

\* handle_auth_error: the HTTP status of each AuthError variant
handle_auth_error(variant) ==
    CASE variant \in {"InvalidEmail", "InvalidPassword", "InvalidVerificationCode"} -> 400
      [] variant \in {"InvalidCredentials", "TokenExpired", "InvalidToken"} -> 401
      [] variant \in {"AccountNotVerified", "AccountSuspended", "AccountDeleted"} -> 403
      [] variant = "AccountNotFound" -> 404
      [] variant = "EmailAlreadyExists" -> 409
      [] variant \in {"DatabaseError", "PasswordHashError"} -> 500
      [] variant \in {"VerificationSendFailed", "EmailSendError"} -> 503

\* AuthService::hash_refresh_token: a function of the token string
hash_refresh_token(tok) == <<tok.sub, tok.token_type, tok.iat, tok.exp, tok.sig>>

\* a row of table sessions as generate_token_pair inserts it
SessionRow(a, h, t) ==
    [account_id |-> a, refresh_token_hash |-> h, created_at |-> t,
     expires_at |-> t + RefreshTokenDuration, last_used_at |-> t, is_active |-> TRUE]

\* a lookup that also returns deactivated sessions
ActiveSessionsAnyState(rows, h) ==
    {i \in 1..Len(rows) : rows[i].refresh_token_hash = h}

\* SELECT ... FROM sessions WHERE refresh_token_hash = ? AND is_active = TRUE
ActiveSessions(rows, h) ==
    {i \in 1..Len(rows) : rows[i].refresh_token_hash = h /\ rows[i].is_active}

\* fetch_optional: the first of the rows found
FirstOf(found) == CHOOSE i \in found : \A j \in found : i <= j

\* a signed token and the status its account had when it was signed
Grant(tok, status, by) == [token |-> tok, status |-> status, by |-> by]

\* the answer of an auth operation: err is "ok" or the error
Ret(op, err, tok) == [op |-> op, err |-> err, tok |-> tok, at |-> utc]

\* the tokens a client can present: those the service signed and a forged one
Presented == {g.token : g \in grants} \cup {ForgedToken}

AuthInit ==
    /\ utc = 0
    /\ accounts = <<>>
    /\ session_rows = <<>>
    /\ codes = <<>>
    /\ registering = [t \in Threads |-> <<>>]
    /\ verifying = [t \in Threads |-> <<>>]
    /\ grants = {}
    /\ revoked = {}
    /\ verified_ok = [k \in Accounts \X Codes |-> 0]
    /\ auth_ret = Ret("none", "ok", NoToken)

\* an auth operation starts; nothing outside the auth service changes
AuthOp ==
    /\ ops < MaxAuthOps
    /\ ops' = ops + 1
    /\ UNCHANGED <<rooms, user_rooms, next_room, call, last_ret, sessVars, brokerVars,
                   msgVars, logVars>>

\* AuthService::cleanup_old_verification_codes
cleanup_old_verification_codes(cs, a, t) ==
    [k \in {x \in DOMAIN cs : ~(x[1] = a /\ (cs[x].expires_at < t \/ cs[x].used))} |-> cs[k]]

\* AuthService::send_verification_code with the random code c: the INSERT
\* fails on the primary key when the same code is still in the table
send_verification_code(cs, a, c, t) ==
    LET cleaned == cleanup_old_verification_codes(cs, a, t)
    IN IF <<a, c>> \in DOMAIN cleaned
       THEN cleaned
       ELSE MapPut(cleaned, <<a, c>>, [expires_at |-> t + CodeDuration, used |-> FALSE])

\* POST /api/auth/register with a well-formed email and password, up to the
\* INSERT of AuthService::register: validate, email_exists, hash_password
RegisterCheck(t, a, c) ==
    /\ AuthOp
    /\ registering[t] = <<>>
    /\ IF a \in DOMAIN accounts
       THEN /\ auth_ret' = Ret("register", "EmailAlreadyExists", NoToken)
            /\ UNCHANGED registering
       ELSE /\ registering' = [registering EXCEPT ![t] = <<[email |-> a, code |-> c]>>]
            /\ UNCHANGED auth_ret
    /\ UNCHANGED <<utc, accounts, session_rows, codes, verifying, grants, revoked,
                   verified_ok>>

\* the rest of the handler: INSERT INTO accounts, which fails on the UNIQUE
\* email when the account exists by now, then send_verification_code
RegisterInsert(t) ==
    /\ registering[t] # <<>>
    /\ registering' = [registering EXCEPT ![t] = <<>>]
    /\ LET a == registering[t][1].email
           c == registering[t][1].code
       IN IF a \in DOMAIN accounts
          THEN /\ auth_ret' = Ret("register", "DatabaseError", NoToken)
               /\ UNCHANGED <<accounts, codes>>
          ELSE /\ accounts' = MapPut(accounts, a,
                                     [status |-> "active", email_verified |-> FALSE])
               /\ codes' = send_verification_code(codes, a, c, utc)
               /\ auth_ret' = Ret("register", "ok", NoToken)
    /\ UNCHANGED <<regVars, sessVars, brokerVars, msgVars, utc, session_rows, verifying,
                   grants, revoked, verified_ok>>
    /\ UNCHANGED logVars

\* AuthService::login: "ok" or the error
login(accs, a, pw_ok) ==
    IF a \notin DOMAIN accs THEN "AccountNotFound"
    ELSE IF ~pw_ok THEN "InvalidCredentials"
    ELSE IF accs[a].status = "suspended" THEN "AccountSuspended"
    ELSE IF accs[a].status = "deleted" THEN "AccountDeleted"
    ELSE "ok"

\* POST /api/auth/login: AuthService::login, then generate_token_pair, which
\* signs an access and a refresh token and inserts the session row
ApiLogin(a, pw_ok) ==
    /\ AuthOp
    /\ LET err == login(accounts, a, pw_ok)
           access == generate_token(a, "access", utc)
           refresh == generate_token(a, "refresh", utc)
       IN IF err = "ok"
          THEN /\ grants' = grants \cup {Grant(access, accounts[a].status, "login"),
                                         Grant(refresh, accounts[a].status, "login")}
               /\ session_rows' = Append(session_rows,
                                         SessionRow(a, hash_refresh_token(refresh), utc))
               /\ auth_ret' = Ret("login", "ok", refresh)
          ELSE /\ auth_ret' = Ret("login", err, NoToken)
               /\ UNCHANGED <<grants, session_rows>>
    /\ UNCHANGED <<utc, accounts, codes, verifying, revoked, verified_ok>>
    /\ UNCHANGED registering

\* AuthService::refresh_access_token: "ok" or the error
refresh_access_token(rows, accs, tok, t) ==
    LET found == ActiveSessions(rows, hash_refresh_token(tok))
    IN IF verify_token(tok, "refresh", t) # "ok" THEN verify_token(tok, "refresh", t)
       ELSE IF found = {} THEN "Invalid refresh token"
       ELSE IF t > rows[FirstOf(found)].expires_at THEN "Refresh token expired"
       ELSE IF rows[FirstOf(found)].account_id \notin DOMAIN accs THEN "AccountNotFound"
       ELSE "ok"

\* UPDATE sessions SET last_used_at = ? WHERE refresh_token_hash = ?
TouchSessions(rows, h, t) ==
    [i \in 1..Len(rows) |->
        IF rows[i].refresh_token_hash = h THEN [rows[i] EXCEPT !.last_used_at = t]
                                          ELSE rows[i]]

\* POST /api/auth/refresh: refresh_access_token; the account is read and a
\* new access token is signed for it, the refresh token is kept
ApiRefresh(tok) ==
    /\ AuthOp
    /\ LET err == refresh_access_token(session_rows, accounts, tok, utc)
           a == session_rows[FirstOf(ActiveSessions(session_rows,
                                                    hash_refresh_token(tok)))].account_id
       IN IF err = "ok"
          THEN /\ session_rows' = TouchSessions(session_rows, hash_refresh_token(tok), utc)
               /\ grants' = grants \cup
                              {Grant(generate_token(a, "access", utc), accounts[a].status,
                                     "refresh")}
               /\ auth_ret' = Ret("refresh", "ok", tok)
          ELSE /\ auth_ret' = Ret("refresh", err, tok)
               /\ UNCHANGED <<session_rows, grants>>
    /\ UNCHANGED <<utc, accounts, codes, verifying, revoked, verified_ok>>
    /\ UNCHANGED registering

\* UPDATE sessions SET is_active = FALSE WHERE the row is one of which
Deactivate(rows, which) ==
    [i \in 1..Len(rows) |-> IF i \in which THEN [rows[i] EXCEPT !.is_active = FALSE]
                                           ELSE rows[i]]

\* AuthService::logout
Logout(tok) ==
    /\ AuthOp
    /\ session_rows' = Deactivate(session_rows,
                                  {i \in 1..Len(session_rows) :
                                      session_rows[i].refresh_token_hash
                                          = hash_refresh_token(tok)})
    /\ revoked' = revoked \cup {tok}
    /\ auth_ret' = Ret("logout", "ok", tok)
    /\ UNCHANGED <<utc, accounts, codes, verifying, grants, verified_ok>>
    /\ UNCHANGED registering

\* AuthService::logout_all_devices
LogoutAll(a) ==
    /\ AuthOp
    /\ session_rows' = Deactivate(session_rows,
                                  {i \in 1..Len(session_rows) :
                                      session_rows[i].account_id = a})
    /\ revoked' = revoked \cup {g.token : g \in {x \in grants : /\ x.token.sub = a
                                                                /\ x.token.token_type = "refresh"}}
    /\ auth_ret' = Ret("logout_all", "ok", NoToken)
    /\ UNCHANGED <<utc, accounts, codes, verifying, grants, verified_ok>>
    /\ UNCHANGED registering

\* POST /api/auth/logout: the handler takes no body and answers success
ApiLogout(tok) ==
    /\ AuthOp
    /\ auth_ret' = Ret("api_logout", "ok", tok)
    /\ UNCHANGED <<utc, accounts, session_rows, codes, verifying, grants, revoked,
                   verified_ok>>
    /\ UNCHANGED registering

\* auth_middleware: verify_token(token, Access), then get_account_by_id
AuthMiddleware(tok) ==
    /\ AuthOp
    /\ auth_ret' = Ret("auth_middleware",
                       IF verify_token(tok, "access", utc) # "ok"
                       THEN verify_token(tok, "access", utc)
                       ELSE IF tok.sub \notin DOMAIN accounts THEN "AccountNotFound"
                       ELSE "ok",
                       tok)
    /\ UNCHANGED <<utc, accounts, session_rows, codes, verifying, grants, revoked,
                   verified_ok>>
    /\ UNCHANGED registering

\* the status column of an account is rewritten (no handler of the server
\* does it; login reads it)
AdminSetStatus(a, st) ==
    /\ AuthOp
    /\ a \in DOMAIN accounts
    /\ accounts[a].status # st
    /\ accounts' = [accounts EXCEPT ![a].status = st]
    /\ UNCHANGED <<utc, session_rows, codes, verifying, grants, revoked, verified_ok,
                   auth_ret>>
    /\ UNCHANGED registering

\* time passes
UtcAdvance(d) ==
    /\ AuthOp
    /\ utc' = utc + d
    /\ UNCHANGED <<accounts, session_rows, codes, verifying, grants, revoked, verified_ok,
                   auth_ret>>
    /\ UNCHANGED registering

\* verify_email_code up to its UPDATE: the SELECT and the checks of used and
\* expires_at
VerifySelect(t, a, c) ==
    /\ AuthOp
    /\ verifying[t] = <<>>
    /\ IF <<a, c>> \notin DOMAIN codes \/ codes[<<a, c>>].used
          \/ utc > codes[<<a, c>>].expires_at
       THEN /\ auth_ret' = Ret("verify_email", "InvalidVerificationCode", NoToken)
            /\ UNCHANGED verifying
       ELSE /\ verifying' = [verifying EXCEPT ![t] = <<[email |-> a, code |-> c]>>]
            /\ UNCHANGED auth_ret
    /\ UNCHANGED <<utc, accounts, session_rows, codes, grants, revoked, verified_ok>>
    /\ UNCHANGED registering

\* verify_email_code from its UPDATE on: used = TRUE, email_verified = TRUE, Ok
VerifyUpdate(t) ==
    /\ verifying[t] # <<>>
    /\ LET k == <<verifying[t][1].email, verifying[t][1].code>>
       IN /\ codes' = IF k \in DOMAIN codes THEN [codes EXCEPT ![k].used = TRUE] ELSE codes
          /\ accounts' = IF k[1] \in DOMAIN accounts
                         THEN [accounts EXCEPT ![k[1]].email_verified = TRUE]
                         ELSE accounts
          /\ verified_ok' = [verified_ok EXCEPT ![k] = @ + 1]
    /\ verifying' = [verifying EXCEPT ![t] = <<>>]
    /\ auth_ret' = Ret("verify_email", "ok", NoToken)
    /\ UNCHANGED <<regVars, sessVars, brokerVars, msgVars, utc, session_rows, grants,
                   revoked>>
    /\ UNCHANGED registering
    /\ UNCHANGED logVars

\* the answer of POST /api/auth/resend-code with the random code c: the HTTP
\* status, the success flag and the message of the envelope (four different
\* texts in the handler)
resend_response(accs, cs, a, c, t) ==
    IF a \notin DOMAIN accs
    THEN [status |-> 200, success |-> TRUE, message |-> "sent if registered"]
    ELSE IF accs[a].email_verified
    THEN [status |-> 400, success |-> FALSE, message |-> "already verified"]
    ELSE IF <<a, c>> \in DOMAIN cleanup_old_verification_codes(cs, a, t)
    THEN [status |-> 500, success |-> FALSE, message |-> "database error"]
    ELSE [status |-> 200, success |-> TRUE, message |-> "resent"]

\* POST /api/auth/resend-code with the random code c
ApiResend(a, c) ==
    /\ AuthOp
    /\ LET resp == resend_response(accounts, codes, a, c, utc)
       IN auth_ret' = Ret("resend", IF resp.success THEN "ok" ELSE resp.message, NoToken)
    /\ codes' = IF a \in DOMAIN accounts /\ ~accounts[a].email_verified
                THEN send_verification_code(codes, a, c, utc)
                ELSE codes
    /\ UNCHANGED <<utc, accounts, session_rows, verifying, grants, revoked, verified_ok>>
    /\ UNCHANGED registering

\* accounts, logins, tokens and sessions; registrations come one at a time
\* and draw the first code
AuthNext ==
    \/ \E a \in Accounts : RegisterCheck(1, a, 1)
    \/ RegisterInsert(1)
    \/ \E a \in Accounts, pw_ok \in BOOLEAN : ApiLogin(a, pw_ok)
    \/ \E tok \in Presented : ApiRefresh(tok)
    \/ \E tok \in Presented : Logout(tok)
    \/ \E a \in Accounts : LogoutAll(a)
    \/ \E tok \in Presented : ApiLogout(tok)
    \/ \E tok \in Presented : AuthMiddleware(tok)
    \/ \E a \in Accounts, st \in Statuses : AdminSetStatus(a, st)
    \/ \E d \in UtcSteps : UtcAdvance(d)

\* registration and verification codes
CodesNext ==
    \/ \E t \in Threads, a \in Accounts, c \in Codes : RegisterCheck(t, a, c)
    \/ \E t \in Threads : RegisterInsert(t)
    \/ \E t \in Threads, a \in Accounts, c \in Codes : VerifySelect(t, a, c)
    \/ \E t \in Threads : VerifyUpdate(t)
    \/ \E a \in Accounts, c \in Codes : ApiResend(a, c)
    \/ \E d \in UtcSteps : UtcAdvance(d)

RegInit ==
    /\ rooms = <<>>
    /\ user_rooms = <<>>
    /\ next_room = 1
    /\ call = [t \in Threads |-> Idle]
    /\ last_ret = "none"
    /\ ops = 0

RegNext ==
    \/ \E t \in Threads, u \in Users, max \in MaxMembersChoices : CreateRoomStore(t, u, max)
    \/ \E t \in Threads : CreateRoomIndex(t)
    \/ \E t \in Threads, u \in Users, r \in RoomIds : JoinRoomStore(t, u, r)
    \/ \E t \in Threads : JoinRoomIndex(t)
    \/ \E t \in Threads, u \in Users, r \in RoomIds : LeaveRoomStore(t, u, r)
    \/ \E t \in Threads : LeaveRoomIndex(t)
    \/ \E t \in Threads, u \in Users, r \in RoomIds : DeleteRoomStore(t, u, r)
    \/ \E t \in Threads : DeleteRoomIndex(t)
    \/ \E t \in Threads, u \in Users : DisconnectSnapshot(t, u)
    \/ \E t \in Threads : DisconnectLeaveStore(t)
    \/ \E t \in Threads : DisconnectLeaveIndex(t)

Init == RegInit /\ FabricInit /\ BrokerInit /\ DbInit /\ AuthInit

SpecRegistry == Init /\ [][RegNext]_vars

SpecSession == Init /\ [][SessNext]_vars

SpecHeartbeat == Init /\ [][HbNext]_vars

SpecChat == Init /\ [][ChatNext]_vars

SpecStore == Init /\ [][StoreNext]_vars

SpecPublish == Init /\ [][PublishNext]_vars

SpecAuth == Init /\ [][AuthNext]_vars

SpecCodes == Init /\ [][CodesNext]_vars

SpecNick == Init /\ [][NickNext]_vars

SpecBroker == Init /\ [][BrokerNext]_vars

SpecShared == Init /\ [][SharedNext]_vars

SpecBots == Init /\ [][BotsNext]_vars

\* the runtime keeps polling runnable tasks and firing due timers
HbFairness ==
    /\ WF_vars(TimeAdvance)
    /\ \A s \in TimedSessions :
          /\ WF_vars(HsSubscribe(s))
          /\ WF_vars(HsAddClient(s))
          /\ WF_vars(HsCleanup(s))
          /\ WF_vars(HbTick(s))
          /\ WF_vars(Writer(s))
          /\ WF_vars(RecvPong(s))

FairSpecHeartbeat == SpecHeartbeat /\ HbFairness

\* ------------------------------------------------ registry claims (C1-C3)
RegQuiescent == \A t \in Threads : call[t].pc = "idle"

InMembers(r, u) == r \in DOMAIN rooms /\ u \in rooms[r].members

\* rooms_of(u): what user_rooms lists for u
InRoomsOf(u, r) == u \in DOMAIN user_rooms /\ r \in SeqSet(user_rooms[u])

\* C1: whenever no registry operation is in flight, for every room R and user U,
\* U is in R.members iff R is listed in user_rooms[U]; no entry of user_rooms
\* names a destroyed room.
C1_ReverseIndexConsistent ==
    RegQuiescent =>
        \A r \in RoomIds, u \in Users : InMembers(r, u) <=> InRoomsOf(u, r)

\* C2: every room that exists has its owner among its members.
C2_OwnerIsMember ==
    \A r \in DOMAIN rooms : rooms[r].owner \in rooms[r].members

\* C3: every room with max_members set has at most max_members members.
C3_CapacityRespected ==
    \A r \in DOMAIN rooms :
        \A max \in rooms[r].max_members : Cardinality(rooms[r].members) <= max

\* ------------------------------------------- heartbeat claims (C6-C8)
Elapsed(s) == now - last_pong[s]

UserLeftSent(s) == \E i \in 1..Len(gchan) : gchan[i] = UserLeft(sess_uid[s])

\* C6: a registered session whose client stays connected and never answers a
\* Ping is eventually removed from the clients map with a UserLeft for it sent
\* on the global channel, and the heartbeat declares a session dead only when
\* more than 90 s have passed since its last pong.
C6_SilentSessionEvicted ==
    /\ \A s \in TimedSessions :
          (Registered(s) /\ ~responsive[s])
             ~> (~Registered(s) /\ (conn[s] = "closed" \/ UserLeftSent(s)))
    /\ [](\A s \in TimedSessions : timed_out[s] => Elapsed(s) > HeartbeatTimeout)

C6_Witness ==
    \E s \in TimedSessions :
        /\ timed_out[s] /\ ~responsive[s] /\ conn[s] = "open"
        /\ ~Registered(s) /\ UserLeftSent(s)

\* C7 (as stated): every registered session has less than 90 s elapsed since
\* its last pong.
C7_ElapsedBelowTimeout ==
    \A s \in TimedSessions : Registered(s) => Elapsed(s) < HeartbeatTimeout

\* C7 (amended): every registered session has at most 90 s + one heartbeat
\* interval (120 s) elapsed since its last pong, ticks firing on schedule.
C7_ElapsedBounded ==
    \A s \in TimedSessions :
        Registered(s) => Elapsed(s) <= HeartbeatTimeout + HeartbeatInterval

C7_Witness ==
    \E s \in TimedSessions :
        Registered(s) /\ conn[s] = "open" /\ task[s].hb = "run" /\ Elapsed(s) > HeartbeatTimeout

IsGlobalEvent(e) ==
    \/ e.type \in {"UserJoined", "UserLeft", "UserJoinedRoom", "UserLeftRoom"}
    \/ e.type = "Message" /\ e.extra = 0

\* the global events that reached session s: written to the socket or queued
Received(s) == SelectSeq(wire[s] \o mailbox[s], IsGlobalEvent)

\* the global events the session's receiver still holds
Pending(s) == SubSeq(gchan, gcur[s] + 1, Len(gchan))

\* C9: Connected is the first frame written to a session's socket; a session
\* is in the clients map only after its global receiver exists; and the global
\* events received by or pending for a session whose pipeline is running are a
\* gap-free tail of the global channel that starts no later than the
\* session's own UserJoined.
C9_StartupOrder ==
    \A s \in Sessions :
        /\ wire[s] # <<>> => wire[s][1] = Connected(sess_uid[s])
        /\ Registered(s) => task[s].bcast # "none"
        /\ (hs_pc[s] \in {"selecting", "done"} /\ task[s].bcast = "run" /\ task[s].send = "run")
              => LET all == Received(s) \o Pending(s)
                     from == Len(gchan) - Len(all) + 1
                 IN /\ from >= 1
                    /\ all = SubSeq(gchan, from, Len(gchan))
                    /\ \E j \in from..Len(gchan) : gchan[j] = UserJoined(sess_uid[s])

C9_Witness ==
    \E s \in Sessions, o \in Sessions :
        /\ s # o
        /\ hs_pc[o] = "selecting"
        /\ \E i, j \in 2..Len(wire[s]) :
              /\ i < j
              /\ wire[s][i] = UserJoined(sess_uid[s])
              /\ wire[s][j] = UserJoined(sess_uid[o])

\* C10: once handle_socket has returned for a session, no task of the session
\* takes a further step: no task changes state, nothing more is queued in the
\* session's mailbox and nothing more is written to its socket.
C10_NoStepAfterShutdown ==
    [][\A s \in Sessions :
          hs_pc[s] = "done" =>
              /\ task'[s] = task[s]
              /\ mailbox'[s] = mailbox[s]
              /\ wire'[s] = wire[s]]_vars

\* ------------------------------------------------ room chat (C4, C5)
\* C4: a room message is published on the channel of the room its
\* SendRoomMessage frame names and on no other channel.
C4_RoomIsolation ==
    \A c \in DOMAIN room_chan :
        \A i \in 1..Len(room_chan[c]) :
            room_chan[c][i].type = "Message" => room_chan[c][i].extra = c

\* the indices of the events of channel c in a history of <<channel, index>>
IndicesOf(h, c) == {h[i][2] : i \in {k \in 1..Len(h) : h[k][1] = c}}

\* the events of channel c that a live receiver of session s still holds
PendingRoom(s, c) ==
    UNION {(rx.cur + 1)..Len(room_chan[c]) : rx \in {x \in LiveReceivers(s) : x.room = c}}

SessionRunning(s) ==
    hs_pc[s] = "selecting" /\ \A k \in TaskNames : task[s][k] = "run"

\* C5: for a session whose tasks are all running, every event sent on a
\* channel while the session held a receiver of that channel has been
\* forwarded to its mailbox or is still held by its receiver, no event is
\* forwarded twice, and the events of one channel are forwarded in the order
\* they were sent; the same for the global channel from the subscription on.
C5_ExactlyOnceInOrder ==
    \A s \in Sessions :
        SessionRunning(s) =>
            /\ \A c \in RoomIds :
                  IndicesOf(owed[s], c) \subseteq IndicesOf(got[s], c) \cup PendingRoom(s, c)
            /\ \A i, j \in 1..Len(got[s]) :
                  (i < j /\ got[s][i][1] = got[s][j][1]) => got[s][i][2] < got[s][j][2]
            /\ LET all == Received(s) \o Pending(s)
               IN all = SubSeq(gchan, Len(gchan) - Len(all) + 1, Len(gchan))

\* ------------------------------------------- routing errors (C11)
\* WsEvent::Error
ErrorEvent == Ev("Error", 0, 0, 0, 0)

\* the frames of session s that handle_client_message answers with Err
JoinFails(s, r) ==
    JoinRoomLocked(rooms, r, sess_uid[s]).err \notin {"ok", "UserAlreadyInRoom"}

LeaveFails(s, r) == LeaveRoomLocked(rooms, r, sess_uid[s]).err # "ok"

SendFails(s, r) == ~is_user_in_room(rooms, r, sess_uid[s])

FailingFrame(s) ==
    \E r \in RoomIds :
        \/ RecvJoinRoom(s, r) /\ JoinFails(s, r)
        \/ RecvLeaveRoom(s, r) /\ LeaveFails(s, r)
        \/ RecvSendRoomMessage(s, r, TRUE) /\ SendFails(s, r)

\* C11: a frame that the router rejects (join of an unknown or full room,
\* leave of a room the user is not in, room message from a non-member) puts
\* an Error event on the session's mailbox, and the session stays registered
\* with its receive loop running.
C11_RoutingErrorReported ==
    [][\A s \in ChatSessions :
          FailingFrame(s) =>
              /\ mailbox'[s] = Append(mailbox[s], ErrorEvent)
              /\ Registered(s)' = Registered(s)
              /\ task'[s].recv = "run"]_vars

\* --------------------------------------------- message store (C14)
\* what a client of the store can see of it
Observe(st) ==
    [count |-> get_message_count(st),
     recent |-> [l \in 1..MaxLimit |-> get_recent_messages(st, l)],
     by_user |-> [u \in Users |-> [l \in 1..MaxLimit |-> get_user_messages(st, u, l)]]]

\* C14: appending a message a second time right after appending it leaves
\* count, recent and by_user as they were after the first append.
C14_AppendIdempotent ==
    \A m \in MsgInputs :
        Observe(save_message(save_message(store, m), m)) = Observe(save_message(store, m))

C14_Witness ==
    /\ Len(store) = 2
    /\ \E i, j \in 1..Len(attempted) : i < j /\ attempted[i] = attempted[j]
    /\ attempted[Len(attempted)] = attempted[Len(attempted) - 1]

\* ------------------------------------------------ store and publish (C12, C13)
\* the ids whose append to the store was attempted
Attempted == {attempted[i] : i \in 1..Len(attempted)}

\* the ids whose append went through
Stored == {store[i].id : i \in 1..Len(store)}

\* the messages a handler has saved and is about to publish
AboutToPublish ==
    {publishing[s][1].event : s \in {x \in Sessions : publishing[x] # <<>>}}
        \cup {http_publishing[i] : i \in 1..Len(http_publishing)}
        \cup {bot_publishing[i] : i \in 1..Len(bot_publishing)}

\* the messages published on the global channel or on a room channel
Published ==
    {gchan[i] : i \in {k \in 1..Len(gchan) : gchan[k].type = "Message"}}
        \cup UNION {{room_chan[c][i] : i \in {k \in 1..Len(room_chan[c]) :
                                                    room_chan[c][k].type = "Message"}} :
                    c \in DOMAIN room_chan}

\* C12: on every path (SendMessage, SetNickname, SendRoomMessage, bot reply,
\* HTTP POST /api/rooms/{id}/messages) a step that attempts the append of a
\* message leaves that message on its way to its channel, whether or not the
\* append went through.
C12_StoreFailureStillPublishes ==
    [][Len(attempted') > Len(attempted) =>
          \/ \E s \in Sessions :
                /\ publishing'[s] # <<>>
                /\ publishing'[s][1].event.id = attempted'[Len(attempted')]
          \/ /\ http_publishing' # <<>>
             /\ http_publishing'[1].id = attempted'[Len(attempted')]
          \/ /\ bot_publishing' # <<>>
             /\ bot_publishing'[1].id = attempted'[Len(attempted')]]_vars

\* C13: every message that is published on the global channel or on a room
\* channel, or that a handler is about to publish, had its append to the
\* store attempted before.
C13_AppendAttemptedBeforePublish ==
    \A m \in Published \cup AboutToPublish : m.id \in Attempted

\* a text message, a room message and a bot reply are published, one of them
\* after a failed append
C13_Witness ==
    /\ \E m \in Published : m.extra # 0
    /\ \E m \in Published : m.extra = 0 /\ m.user # 0
    /\ \E m \in Published : m.user = 0
    /\ \E m \in Published : m.id \in Attempted \ Stored

\* ------------------------------------------------ refresh (C15)
\* the session rows that carry the fingerprint of tok, are active and are not
\* expired
LiveSessions(tok) ==
    {i \in 1..Len(session_rows) :
        /\ session_rows[i].refresh_token_hash = hash_refresh_token(tok)
        /\ session_rows[i].is_active
        /\ ~(utc > session_rows[i].expires_at)}

\* C15: a refresh succeeds exactly when a session row with the fingerprint of
\* the presented token exists, is active and is not expired; a refresh that
\* succeeds changes last_used_at of the rows with that fingerprint and nothing
\* else of table sessions, and a refresh that fails changes nothing of it.
C15_RefreshIffLiveSession ==
    [][\A tok \in Presented :
          ApiRefresh(tok) =>
              /\ (auth_ret'.err = "ok") <=> (LiveSessions(tok) # {})
              /\ Len(session_rows') = Len(session_rows)
              /\ \A i \in 1..Len(session_rows) :
                    \/ session_rows'[i] = session_rows[i]
                    \/ /\ auth_ret'.err = "ok"
                       /\ session_rows[i].refresh_token_hash = hash_refresh_token(tok)
                       /\ session_rows'[i] = [session_rows[i] EXCEPT !.last_used_at = utc]]_vars

\* a refresh succeeded some time after the login, and another session had
\* been deactivated
C15_Witness ==
    /\ auth_ret.op = "refresh"
    /\ auth_ret.err = "ok"
    /\ \E i \in 1..Len(session_rows) :
          /\ session_rows[i].refresh_token_hash = hash_refresh_token(auth_ret.tok)
          /\ session_rows[i].last_used_at > session_rows[i].created_at
    /\ \E i \in 1..Len(session_rows) : ~session_rows[i].is_active

\* ------------------------------------------------ logout (C16, C17)
\* C16: a refresh with a token that a completed logout or logout_all_devices
\* revoked fails; logout leaves the rows of other fingerprints as they are,
\* logout_all_devices those of other accounts.
C16_LogoutRevokes ==
    [][/\ \A tok \in Presented :
             (ApiRefresh(tok) /\ tok \in revoked) => auth_ret'.err # "ok"
       /\ \A tok \in Presented :
             Logout(tok) =>
                 \A i \in 1..Len(session_rows) :
                     session_rows[i].refresh_token_hash # hash_refresh_token(tok)
                         => session_rows'[i] = session_rows[i]
       /\ \A a \in Accounts :
             LogoutAll(a) =>
                 \A i \in 1..Len(session_rows) :
                     session_rows[i].account_id # a => session_rows'[i] = session_rows[i]]_vars

\* C17: when POST /api/auth/logout, sent with a refresh token, has answered
\* success, no session row with the fingerprint of that token is active.
C17_ApiLogoutEndsSession ==
    [][\A tok \in Presented :
          (ApiLogout(tok) /\ auth_ret'.err = "ok") =>
              ActiveSessions(session_rows', hash_refresh_token(tok)) = {}]_vars

\* ------------------------------------------------ account status (C18)
\* C18: a login to an account that is not active answers AccountSuspended or
\* AccountDeleted, and no operation signs a token for an account that is not
\* active at that moment.
C18_NoTokenForInactiveAccount ==
    [][/\ \A a \in DOMAIN accounts :
             (ApiLogin(a, TRUE) /\ accounts[a].status # "active")
                 => auth_ret'.err \in {"AccountSuspended", "AccountDeleted"}
       /\ \A g \in grants' \ grants : g.status = "active"]_vars

\* ------------------------------------------------ access tokens (C19)
\* C19: a token that auth_middleware accepted is an access token whose exp
\* was strictly later than the time of the check.
C19_AcceptedAccessTokenUnexpired ==
    (auth_ret.op = "auth_middleware" /\ auth_ret.err = "ok") =>
        /\ auth_ret.tok.token_type = "access"
        /\ auth_ret.tok.exp > auth_ret.at

\* ------------------------------------------------ verification codes (C20)
\* C20: for every (email, code) at most one verify_email_code call has
\* returned Ok.
C20_CodeVerifiesAtMostOnce ==
    \A k \in Accounts \X Codes : verified_ok[k] <= 1

\* ------------------------------------------------ issuing a code (C21)
\* verify_email_code would accept the code of key k at time t
CanVerify(cs, k, t) == k \in DOMAIN cs /\ ~cs[k].used /\ ~(t > cs[k].expires_at)

\* the step inserts the row of code c for email a
CodeIssued(a, c) ==
    /\ <<a, c>> \in DOMAIN codes'
    /\ ~codes'[<<a, c>>].used
    /\ <<a, c>> \in DOMAIN codes => codes'[<<a, c>>] # codes[<<a, c>>]

\* C21: when a new code is issued for an email, at registration or by
\* resend-code, no other code of that email can verify any more.
C21_NewCodeSupersedesOld ==
    [][\A a \in Accounts, c \in Codes :
          CodeIssued(a, c) =>
              \A c2 \in Codes \ {c} : ~CanVerify(codes', <<a, c2>>, utc')]_vars

\* ------------------------------------------------ resend-code (C22)
\* the accounts without the account of email a
WithoutAccount(accs, a) == [x \in DOMAIN accs \ {a} |-> accs[x]]

\* C22: the answer of resend-code for an email is the same whether or not the
\* email has an account, all else being equal.
C22_ResendHidesRegistration ==
    \A a \in DOMAIN accounts, c \in Codes :
        resend_response(accounts, codes, a, c, utc)
            = resend_response(WithoutAccount(accounts, a), codes, a, c, utc)

\* ------------------------------------------------ unique emails (C23)
\* C23: a register call that finds an account of its email, at email_exists or
\* at its INSERT, answers EmailAlreadyExists and leaves the accounts as they
\* are.
C23_DuplicateEmailRejected ==
    [][/\ \A t \in Threads, a \in DOMAIN accounts, c \in Codes :
             RegisterCheck(t, a, c) =>
                 auth_ret'.err = "EmailAlreadyExists" /\ accounts' = accounts
       /\ \A t \in Threads :
             (RegisterInsert(t) /\ registering[t][1].email \in DOMAIN accounts) =>
                 auth_ret'.err = "EmailAlreadyExists" /\ accounts' = accounts]_vars

\* ------------------------------------------------ token errors (C24)
\* C24: when POST /api/auth/refresh or auth_middleware rejects a token in
\* verify_token, an expired token is reported as TokenExpired and a token with
\* a bad signature or of the wrong type as InvalidToken, and the refresh
\* endpoint answers 401.
C24_TokenErrorsDistinguished ==
    (auth_ret.op \in {"refresh", "auth_middleware"} /\ auth_ret.err \in TokenFailures) =>
        /\ AuthErrorOf(auth_ret.err) = (IF auth_ret.err = "Token expired" THEN "TokenExpired"
                                                                         ELSE "InvalidToken")
        /\ auth_ret.op = "refresh" => handle_auth_error(AuthErrorOf(auth_ret.err)) = 401

\* ------------------------------------------------ disconnect (C25)
\* C25: when handle_socket has cleaned up after a session, its user is a
\* member of no room and has no current-room entry in the broker.
C25_DisconnectLeavesRooms ==
    [][\A s \in Sessions :
          HsCleanup(s) =>
              /\ \A r \in DOMAIN rooms' : ~is_member(rooms'[r], sess_uid[s])
              /\ sess_uid[s] \notin DOMAIN user_current_room']_vars

\* ------------------------------------------------ room life time (C26)
\* RoomManager::get_room: "ok" or the error
get_room(rms, r) == IF r \in DOMAIN rms THEN "ok" ELSE "RoomNotFound"

C30_DeleteByOwnerOnly ==
    [][/\ \A t \in Threads, u \in Users, r \in RoomIds :
             DeleteRoomStore(t, u, r) =>
                 IF r \in DOMAIN rooms /\ is_owner(rooms[r], u)
                 THEN get_room(rooms', r) = "RoomNotFound"
                 ELSE /\ last_ret' = (IF r \in DOMAIN rooms THEN "PermissionDenied"
                                                            ELSE "RoomNotFound")
                      /\ UNCHANGED <<rooms, user_rooms, call>>
       /\ \A t \in Threads :
             DeleteRoomIndex(t) =>
                 /\ last_ret' = "ok"
                 /\ \A m \in call[t].snap :
                       m \in DOMAIN user_rooms' => call[t].room \notin SeqSet(user_rooms'[m])]_vars

\* the owner has deleted a room that had two members and is about to clean
\* the reverse index
C30_Witness ==
    \E t \in Threads :
        /\ call[t].pc = "delete_index"
        /\ Cardinality(call[t].snap) = 2
        /\ get_room(rooms, call[t].room) = "RoomNotFound"

\* ------------------------------------------------ rejected room frames (C29)
\* C29: a SendRoomMessage frame naming a room that does not exist or that the
\* sender is not a member of is refused with an error: the step attempts no
\* append to the store, appends nothing to it, publishes on no room channel and
\* not on the global channel, and leaves no message to publish.
C29_NonMemberRoomMessageRejected ==
    [][\A s \in ChatSessions, r \in RoomIds, ok \in BOOLEAN :
          RecvSendRoomMessage(s, r, ok) /\ ~InMembers(r, sess_uid[s]) =>
              /\ UNCHANGED <<store, attempted, room_chan, gchan>>
              /\ publishing'[s] = <<>>
              /\ recv_log'[s] = "Err SendRoomMessage"]_vars

\* a room exists, a session that is not a member of it had a SendRoomMessage
\* frame refused, and no append was ever attempted
C29_Witness ==
    \E s \in ChatSessions, r \in DOMAIN rooms :
        /\ recv_log[s] = "Err SendRoomMessage"
        /\ ~InMembers(r, sess_uid[s])
        /\ attempted = <<>>

\* ------------------------------------------------ nicknames (C27, C28)
IsNickChange(e) == e.type = "Message" /\ e.content.kind = "NickChange"

\* the NickChange messages sent on the global channel, in order
NickChanges == SelectSeq(gchan, IsNickChange)

\* the nickname a NickChange names as the previous one of user u
PreviousNick(u) ==
    IF clients[u].nickname = NoNick THEN DefaultNick ELSE clients[u].nickname

IsText(e) == e.type = "Message" /\ e.content.kind = "Text" /\ e.extra = 0

\* C27: what another connected session has received of a sender's global
\* messages is in publish order, each message once, and a Text message that
\* follows a NickChange of the same sender is signed with the nickname that
\* NickChange set.
C27_NickChangeThenSignedText ==
    \A s \in ChatSessions : \A x \in Sessions \ {s} :
        LET r == Received(x)
            u == sess_uid[s]
            Mine(i) == r[i].type = "Message" /\ r[i].user = u
        IN \A i, j \in 1..Len(r) :
              (i < j /\ Mine(i) /\ Mine(j)) =>
                  /\ r[i].id < r[j].id
                  /\ (/\ IsNickChange(r[i])
                      /\ IsText(r[j])
                      /\ \A k \in (i + 1)..(j - 1) : ~(Mine(k) /\ IsNickChange(r[k])))
                        => r[j].content.from_nick = r[i].content.new_nick

\* ------------------------------------------------ JoinRoom frames (C31)
\* C31: a JoinRoom frame for a room the sender is a member of already leaves
\* the registry as it is, binds the session to a new receiver of the room's
\* channel and sends nothing on the global channel; a JoinRoom frame that makes
\* the sender a member sends exactly one UserJoinedRoom on the global channel.
C31_RejoinRebindsSilently ==
    [][\A s \in ChatSessions, r \in RoomIds :
          RecvJoinRoom(s, r) =>
              /\ InMembers(r, sess_uid[s]) =>
                    /\ UNCHANGED <<rooms, user_rooms, gchan>>
                    /\ room_recv'[s] = <<[room |-> r, cur |-> Len(room_chan'[r])]>>
              /\ (~InMembers(r, sess_uid[s]) /\ InMembers(r, sess_uid[s])') =>
                    gchan' = Append(gchan, UserJoinedRoom(sess_uid[s], r))]_vars

\* ------------------------------------------------ join_room errors (C32)
\* C32: join_room answers RoomNotFound for an unknown room, UserAlreadyInRoom
\* for a member (also when the room is full) and RoomFull for a non-member of
\* a room at capacity, and in each of these cases leaves rooms and user_rooms
\* as they were.
C32_JoinErrors ==
    [][\A t \in Threads, u \in Users, r \in RoomIds :
          JoinRoomStore(t, u, r) =>
              LET expected ==
                      IF r \notin DOMAIN rooms THEN "RoomNotFound"
                      ELSE IF u \in rooms[r].members THEN "UserAlreadyInRoom"
                      ELSE IF \E max \in rooms[r].max_members :
                                 Cardinality(rooms[r].members) >= max
                           THEN "RoomFull"
                           ELSE "ok"
              IN IF expected = "ok"
                 THEN call'[t].pc = "join_index" /\ u \in rooms'[r].members
                 ELSE /\ last_ret' = expected
                      /\ UNCHANGED <<rooms, user_rooms, call>>]_vars

\* no operation is in flight, every room is at capacity, and the last answer
\* of the registry is UserAlreadyInRoom: a member joined a full room again
C32_Witness ==
    /\ RegQuiescent
    /\ last_ret = "UserAlreadyInRoom"
    /\ DOMAIN rooms # {}
    /\ \A r \in DOMAIN rooms : RoomIsFull(rooms[r]) /\ Cardinality(rooms[r].members) = 2

\* ------------------------------------------------ atomic mutations (C33)
\* C33: no registry operation starts in a state where a user is in a room's
\* member set while the room is missing from the user's rooms_of, or the other
\* way round: the two maps change together as far as any other operation can
\* tell.
C33_MutationsAtomic ==
    [][ops' # ops =>
          \A u \in Users, r \in RoomIds : InMembers(r, u) <=> InRoomsOf(u, r)]_vars

\* ------------------------------------------------ the room-listener slot (C34)
\* C34: when the room-listener task puts the receiver it took back, it does
\* not undo what a frame did in between: after a LeaveRoom (the user has no
\* current room) the slot stays empty, and a receiver bound by a JoinRoom in
\* the meantime stays in the slot.
C34_PutBackKeepsBinding ==
    [][\A s \in ChatSessions :
          RoomPutBack(s) =>
              /\ sess_uid[s] \notin DOMAIN user_current_room => room_recv'[s] = <<>>
              /\ room_recv[s] # <<>> => room_recv'[s] = room_recv[s]]_vars

\* ------------------------------------------------ room_id of room messages (C35)
\* TryFrom<MessageRecord> for Message: the table has no column for room_id or
\* additional_data, so the message read back carries neither
MessageOfRecord(row) == Ev("Message", row.user, 0, row.id, 0)

\* the messages of SendRoomMessage frames that were published on a room channel
RoomPublished ==
    UNION {{room_chan[c][i] : i \in {k \in 1..Len(room_chan[c]) :
                                         room_chan[c][k].type = "Message"}} :
           c \in DOMAIN room_chan}

\* C35: a message built for SendRoomMessage{R} that was published on a room
\* channel has its room_id field equal to R, and so has the message read back
\* from the store once it was appended.
C35_RoomIdCarried ==
    \A e \in RoomPublished :
        /\ e.room = e.extra
        /\ \A i \in 1..Len(store) :
              store[i].id = e.id => MessageOfRecord(store[i]).room = e.extra

\* ------------------------------------------------ shutdown causes (C36)
\* C36: handle_socket leaves its select! and removes the session only after
\* the client closed, the transport failed or the heartbeat timed out; it never
\* does so because a task of its own start-up has ended.
C36_ShutdownHasCause ==
    [][\A s \in TimedSessions :
          HsCleanup(s) => (conn[s] = "closed" \/ timed_out[s])]_vars

\* ------------------------------------------------ UserLeft (C37)
\* the UserLeft events for the user of session s on the global channel
UserLeftCount(s) ==
    Cardinality({i \in 1..Len(gchan) : gchan[i] = UserLeft(sess_uid[s])})

\* C37: whatever ends a session, the global channel never holds a second
\* UserLeft for it; in particular the cleanup that follows a heartbeat timeout
\* sends none.
C37_UserLeftOnce ==
    \A s \in TimedSessions : hs_pc[s] # "new" => UserLeftCount(s) <= 1

\* ------------------------------------------------ the current-room index (C38)
\* C38: a user's current room in the broker is a room of the registry that has
\* the user among its members.
C38_CurrentRoomIsMembership ==
    \A u \in DOMAIN user_current_room : InMembers(user_current_room[u], u)

\* ------------------------------------------ two sessions, one user id (C39)
\* session o waits in its select! under the same user id as session s
SharesKey(s, o) == o # s /\ hs_pc[o] = "selecting" /\ sess_uid[o] = sess_uid[s]

\* C39: when two live sessions share one UserId, the shutdown of one of them
\* does not deregister the other: after handle_socket of a session whose client
\* closed has run remove_client, the user id of the other, still live, session
\* is still a key of the live-clients map (so its heartbeat and its room
\* listener find it).
C39_ShutdownSparesTheOther ==
    [][\A s \in Sessions : \A o \in Sessions :
          (HsCleanup(s) /\ conn[s] = "closed" /\ SharesKey(s, o)
              /\ conn[o] = "open" /\ sess_uid[o] \in DOMAIN clients)
              => sess_uid[o] \in DOMAIN clients']_vars

\* ------------------------------------------------------ bot replies (C40)
\* a message sent by BotManager::send_bot_message
IsBotReply(e) == e.type = "Message" /\ e.user = 0

\* the Message of a user that the bot reply e answers
IsTriggerOf(t, e) == t.type = "Message" /\ t.user # 0 /\ BotMessage(t.id) = e

\* C40: for every SendMessage that triggers a bot, the user's own Message is
\* published on the global channel before the bot's reply is; the reply had
\* its append to the store attempted before it was published, and it is the
\* reply to a user's message, never to a bot reply.
C40_UserMessageBeforeBotReply ==
    \A j \in 1..Len(gchan) :
        IsBotReply(gchan[j]) =>
            /\ \E i \in 1..(j - 1) : IsTriggerOf(gchan[i], gchan[j])
            /\ gchan[j].id \in Attempted

====
